---------------------------- MODULE Spec2Model ----------------------------
(***************************************************************************)
(* Model of package extract of Seann-Moser/mserve:                         *)
(*   - Result.DownloadResults, the bounded-concurrency download batch of   *)
(*     one Download-flagged rule (specification SpecDL);                   *)
(*   - MapResultsResults / complexPathing, the path remapper               *)
(*     (specification SpecMap).                                            *)
(* Go values of type interface{} are tagged records [k, v]: k is the       *)
(* dynamic type, v the payload.                                            *)
(***************************************************************************)
EXTENDS Integers, Sequences, FiniteSets, TLC

(***************************************************************************)
(* Dynamically typed values (interface{}).                                 *)
(***************************************************************************)
Nil == [k |-> "nil", v |-> <<>>]
Str(s) == [k |-> "str", v |-> s]
Arr(a) == [k |-> "arr", v |-> a]
Strs(a) == [k |-> "strs", v |-> a]
Map(m) == [k |-> "map", v |-> m]
Absent == [k |-> "absent", v |-> <<>>]

Range(s) == {s[i] : i \in 1..Len(s)}

\* A remap directive (type Mapping).
Directive(o, key, to, isArray) ==
    [Object |-> o, Key |-> key, To |-> to, IsArray |-> isArray,
     ArrayObjMap |-> <<>>]

\* A directive of an ArrayObjMap list: the fields remapSingleObject reads.
Nested(key, to, format) == [Key |-> key, To |-> to, Format |-> format]
WithArrayObjMap(d, rules) == [d EXCEPT !.ArrayObjMap = rules]
IntVal(n) == [k |-> "int", v |-> n]

(***************************************************************************)
(* Bounds of the download model.                                           *)
(***************************************************************************)
MaxUrls == 3
MaxConc == 2
(* The URL that the page holds at position i; positions 1 and 3 end in the *)
(* same file name.                                                         *)
UrlAt(i) ==
    CASE i = 1 -> "http://h/a.png"
      [] i = 2 -> "http://h/b.png"
      [] i = 3 -> "http://g/a.png"
      [] OTHER -> "http://h/c.png"

\* downloadResource, lines 308-317: Join(saveDir, removeDuplicateExt(Base(u.Path)))
OutPath(u) ==
    CASE u = "http://h/a.png" -> "dl/a.png"
      [] u = "http://h/b.png" -> "dl/b.png"
      [] u = "http://g/a.png" -> "dl/a.png"
      [] OTHER -> "dl/c.png"

\* safeString: a string is itself, an int its decimal form, anything else "".
safeString(x) ==
    CASE x.k = "str" -> x.v
      [] x.k = "int" -> ToString(x.v)
      [] OTHER -> ""

AllStrings(it) == [i \in 1..Len(it) |-> safeString(it[i])]
RECURSIVE NonEmptyStrings(_)
\* GetResultStringArray lines 231-252: the entries of a []interface{} whose
\* safeString is not empty
NonEmptyStrings(it) ==
    IF it = <<>> THEN <<>>
    ELSE IF safeString(Head(it)) # ""
         THEN <<safeString(Head(it))>> \o NonEmptyStrings(Tail(it))
         ELSE NonEmptyStrings(Tail(it))

\* Result.GetResultStringArray(key) applied to the value v stored at key
\* (Absent: no such key).
GetResultStringArray(x) ==
    CASE x.k = "absent" -> <<>>
      [] x.k = "strs" -> x.v
      [] x.k = "str" -> <<x.v>>
      [] x.k = "arr" -> NonEmptyStrings(x.v)
      [] OTHER -> <<>>

VARIABLES
    extracted,     \* r[rule.Name] before the call
    stored,        \* r[rule.Name]
    concurrency,   \* the concurrency argument
    canceled,      \* ctx.Done() is closed
    pc,            \* position of DownloadResults
    urlResults, downloadList, permits, cur, wg, idx,
    w,             \* w[i]: position of the goroutine started for urlResults[i]
    res,           \* res[i]: what downloadResource returned to goroutine i
    fs,            \* files on disk: path -> URL whose body the file holds
    cause,         \* history: how goroutine i's downloadResource ended
    order,         \* history: goroutines in the order their fetch ended
    atCancel       \* history: goroutines in flight when ctx was canceled

dlvars == <<extracted, stored, concurrency, canceled, pc, urlResults,
            downloadList, permits, cur, wg, idx, w, res, fs, cause, order,
            atCancel>>


VARIABLES
    remappedData,  \* the shared root
    objMap,        \* the named buckets
    mi,            \* directives of r.Mapping processed so far
    mst,           \* "run", "done" (returned) or "panic"
    ret,           \* what MapResultsResults returned
    last,          \* history: the directive of the last iteration
    branch,        \* history: what the last iteration did
    abandoned,     \* history: a directive was abandoned on a blocked path
    over,          \* history: what the last directive's leaf held before it
    left           \* the directive of the last iteration as the call left it

mapvars == <<remappedData, objMap, mi, mst, ret, last, branch, abandoned,
             over, left>>

\* Scrape
VARIABLES
    rules,         \* the rule trees handed to Scrape
    pageURL,       \* the page to scrape
    failing,       \* the URLs for which the Fetcher returns an error
    spc,           \* where Scrape is: idle, fetch, parse, loop, done
    root,          \* the Result being built
    ri,            \* root rules evaluated so far
    sret,          \* the Result Scrape returned
    serr,          \* the error Scrape returned: nil, fetch or parse
    fetchLog       \* history: the URLs the Fetcher was called with
evalvars == <<rules, pageURL, failing, spc, root, ri, sret, serr, fetchLog>>

\* applyTransform
VARIABLES
    traw,          \* the value handed to applyTransform
    tlist,         \* the transforms handed to it
    tpc,           \* idle, start, once (applied), twice (applied again)
    tout,          \* what applyTransform(raw, t...) returned
    tagain         \* what applyTransforms of that, t... returned
trvars == <<traw, tlist, tpc, tout, tagain>>

\* Placeholder resolution (replacePlaceholders and
\* replacePlaceholdersInterface called on one template).
VARIABLES
    ptempl,        \* the template string
    pindex,        \* the index argument
    gen,           \* what the generators and the clock returned to the call
    pcalls,        \* history: how often the call ran each generator
    pout,          \* the returned value
    ppc            \* "idle", "start", "string" or "interface"

phvars == <<ptempl, pindex, gen, pcalls, pout, ppc>>

\* Saving and loading rule lists.
VARIABLES
    saved,         \* the rule list given to the Save function
    stfile,        \* what is stored: the format and the encoded document
    loaded,        \* the rule list the Load function returned
    stpc           \* "idle", "start", "saved" or "loaded"

stvars == <<saved, stfile, loaded, stpc>>

\* DownloadResults over a rule tree: the download batches of one call.
VARIABLES
    batches,       \* batches[b]: number of URLs of the b-th batch of the walk
    bconc,         \* the concurrency argument, passed down unchanged
    bctx,          \* ctx.Done() is closed
    bn,            \* the batch the walk is at
    bpc,           \* position of the walk inside batch bn
    bidx,          \* loop index over the URLs of batch bn
    bsem,          \* bsem[b]: permits held of the semaphore of batch b
    bwg,           \* bwg[b]: counter of the WaitGroup of batch b
    gor,           \* gor[<<b, i>>]: position of the goroutine of URL i of b
    ua             \* the package variable ua: "nil" or "set"

treevars == <<batches, bconc, bctx, bn, bpc, bidx, bsem, bwg, gor, ua>>

\* Flattening a list of values.
VARIABLES
    fvals,         \* the list given to flattenList
    fflat,         \* the list it returned
    fpc            \* "idle", "start" or "done"

flvars == <<fvals, fflat, fpc>>

\* The Format template and the objects made from it, as Go holds them:
\* maps and slices are cells of a heap, reached through references.
VARIABLES
    aheap,         \* the cells: aheap[a] is the map or slice at address a
    aroot,         \* address of rule.Format
    aelems,        \* number of elements of the source array
    produced,      \* produced[n]: address of the object made for element n
    touched,       \* history: the object the caller wrote into, 0 for none
    before,        \* history: what template and objects held before that
    apc            \* "idle", "copy", "use" or "written"

alvars == <<aheap, aroot, aelems, produced, touched, before, apc>>

vars == <<dlvars, mapvars, evalvars, trvars, phvars, stvars, treevars, flvars,
          alvars>>

\* One entry per position of the extracted list: the URL, or "" (an
\* element without the attribute).
RECURSIVE Lists(_)
Lists(n) ==
    IF n = 0 THEN {<<>>}
    ELSE LET shorter == Lists(n - 1)
         IN  shorter \cup
             {Append(l, e) : l \in {s \in shorter : Len(s) = n - 1},
                             e \in {Str(UrlAt(n)), Str("")}}

\* What applyRule leaves at rule.Name for a rule with Children: the record
\* of a match, its URL under the Attr key next to the child fields.
Record(u, title) == Map([src |-> Str(u), title |-> Str(title)])

NestedExtractions ==
    {Record(UrlAt(1), "Book 1"),
     Arr(<<Record(UrlAt(1), "Book 1"), Record(UrlAt(2), "Book 2")>>)}

Extractions ==
    {Arr(l) : l \in Lists(MaxUrls)}
      \cup {Str(UrlAt(1)), Strs(<<UrlAt(1), UrlAt(2)>>), Absent}
      \cup NestedExtractions

NoFiles == [p \in {OutPath(UrlAt(i)) : i \in 1..(MaxUrls + 1)} |-> "none"]

DLInit ==
    /\ aheap = <<>> /\ aroot = 0 /\ aelems = 0 /\ produced = <<>>
    /\ touched = 0 /\ before = <<>> /\ apc = "idle"
    /\ fvals = <<>> /\ fflat = <<>> /\ fpc = "idle"
    /\ batches = <<>> /\ bconc = 0 /\ bctx = FALSE /\ bn = 0 /\ bpc = "idle"
    /\ bidx = 0 /\ bsem = <<>> /\ bwg = <<>> /\ gor = <<>> /\ ua = "nil"
    /\ saved = <<>> /\ stfile = <<>> /\ loaded = <<>> /\ stpc = "idle"
    /\ ptempl = "" /\ pindex = 0 /\ gen = <<>> /\ pcalls = <<>>
    /\ pout = <<>> /\ ppc = "idle"
    /\ extracted \in Extractions
    /\ stored = extracted
    /\ concurrency \in 0..MaxConc
    /\ canceled = FALSE
    /\ pc = "call"
    /\ urlResults = <<>>
    /\ downloadList = <<>>
    /\ permits = 0
    /\ cur = 0
    /\ wg = 0
    /\ idx = 1
    /\ w = <<>>
    /\ res = <<>>
    /\ fs \in {NoFiles, [NoFiles EXCEPT !["dl/b.png"] = "old"]}
    /\ cause = <<>>
    /\ order = <<>>
    /\ atCancel = {}
    /\ remappedData = <<>> /\ objMap = <<>> /\ mi = 0 /\ mst = "idle"
    /\ ret = Absent /\ last = Directive("", "", "", FALSE)
    /\ left = Directive("", "", "", FALSE)
    /\ branch = "none" /\ abandoned = FALSE /\ over = Absent
    /\ rules = <<>> /\ pageURL = "" /\ failing = {} /\ spc = "idle"
    /\ root = <<>> /\ ri = 0 /\ sret = Absent /\ serr = "nil"
    /\ fetchLog = {}
    /\ traw = Absent /\ tlist = <<>> /\ tpc = "idle" /\ tout = <<>>
    /\ tagain = <<>>

Workers == 1..Len(urlResults)
InFlight == {i \in Workers : w[i] \in {"stat", "http"}}
Dispatched == {i \in Workers : w[i] # "none"}

PermitsOffByOne(c) == IF c < 1 THEN 1 ELSE c + 1
\* lines 99-102: a concurrency below 1 is 1.
Permits(c) == IF c < 1 THEN 1 ELSE c

\* lines 97-103
StartBatch ==
    /\ pc = "call"
    /\ urlResults' = GetResultStringArray(extracted)
    /\ downloadList' = [i \in 1..Len(urlResults') |-> ""]
    /\ permits' = Permits(concurrency)
    /\ cur' = 0
    /\ wg' = 0
    /\ idx' = 1
    /\ w' = [i \in 1..Len(urlResults') |-> "none"]
    /\ res' = [i \in 1..Len(urlResults') |-> ""]
    /\ cause' = [i \in 1..Len(urlResults') |-> "none"]
    /\ pc' = IF Len(urlResults') = 0 THEN "wait" ELSE "add"
    /\ UNCHANGED <<extracted, stored, concurrency, canceled, fs, order, atCancel>>
    /\ UNCHANGED <<mapvars, evalvars, trvars, phvars, stvars, treevars, flvars,
                   alvars>>

\* line 105: wg.Add(1)
MainAdd ==
    /\ pc = "add"
    /\ wg' = wg + 1
    /\ pc' = "acquire"
    /\ UNCHANGED <<extracted, stored, concurrency, canceled, urlResults,
                   downloadList, permits, cur, idx, w, res, fs, cause, order,
                   atCancel>>
    /\ UNCHANGED <<mapvars, evalvars, trvars, phvars, stvars, treevars, flvars,
                   alvars>>

NextIdx == IF idx = Len(urlResults) THEN "wait" ELSE "add"

\* semaphore.Weighted.Acquire(ctx, 1): a done ctx fails it (also with
\* permits free), a free permit is taken, otherwise the caller blocks.
AcquireFails(c) == c
AcquireTakesIgnoringCtx(c, used, size) == size - used >= 1
AcquireTakes(c, used, size) == ~c /\ size - used >= 1

\* lines 106-109: Acquire fails, continue (wg.Done is not called)
MainAcquireErr ==
    /\ pc = "acquire"
    /\ AcquireFails(canceled)
    /\ idx' = idx + 1
    /\ pc' = NextIdx
    /\ UNCHANGED <<extracted, stored, concurrency, canceled, urlResults,
                   downloadList, permits, cur, wg, w, res, fs, cause, order,
                   atCancel>>
    /\ UNCHANGED <<mapvars, evalvars, trvars, phvars, stvars, treevars, flvars,
                   alvars>>

SlotOfSharedLoopVar(i, loopIdx) ==
    IF loopIdx > Len(urlResults) THEN Len(urlResults) ELSE loopIdx
\* the goroutine started for loop index i writes this slot (the loop
\* variables are per iteration: go 1.24)
SlotOf(i, loopIdx) == i

\* lines 106, 110: Acquire succeeds, the goroutine is started
MainDispatch ==
    /\ pc = "acquire"
    /\ AcquireTakes(canceled, cur, permits)
    /\ cur' = cur + 1
    /\ w' = [w EXCEPT ![idx] = "stat"]
    /\ idx' = idx + 1
    /\ pc' = NextIdx
    /\ UNCHANGED <<extracted, stored, concurrency, canceled, urlResults,
                   downloadList, permits, wg, res, fs, cause, order, atCancel>>
    /\ UNCHANGED <<mapvars, evalvars, trvars, phvars, stvars, treevars, flvars,
                   alvars>>

\* downloadResource lines 308-321: the file is already there, no request
WorkerStatHit(i) ==
    /\ w[i] = "stat"
    /\ fs[OutPath(urlResults[i])] # "none"
    /\ res' = [res EXCEPT ![i] = OutPath(urlResults[i])]
    /\ cause' = [cause EXCEPT ![i] = "cached"]
    /\ order' = Append(order, i)
    /\ w' = [w EXCEPT ![i] = "ret"]
    /\ UNCHANGED <<extracted, stored, concurrency, canceled, pc, urlResults,
                   downloadList, permits, cur, wg, idx, fs, atCancel>>
    /\ UNCHANGED <<mapvars, evalvars, trvars, phvars, stvars, treevars, flvars,
                   alvars>>

\* downloadResource lines 319-335: no such file, the request is sent
WorkerStatMiss(i) ==
    /\ w[i] = "stat"
    /\ fs[OutPath(urlResults[i])] = "none"
    /\ w' = [w EXCEPT ![i] = "http"]
    /\ UNCHANGED <<extracted, stored, concurrency, canceled, pc, urlResults,
                   downloadList, permits, cur, wg, idx, res, fs, cause, order,
                   atCancel>>
    /\ UNCHANGED <<mapvars, evalvars, trvars, phvars, stvars, treevars, flvars,
                   alvars>>

\* How a request bound to ctx can end: as the server answers, or, once ctx
\* is done, with the context's error.
HttpOutcomes(c) == IF c THEN {"ok", "server", "ctx"} ELSE {"ok", "server"}

\* downloadResource lines 335-369: the request ends; on success the file
\* is created and the body copied
WorkerHttp(i) ==
    /\ w[i] = "http"
    /\ \E o \in HttpOutcomes(canceled) :
        /\ cause' = [cause EXCEPT ![i] = o]
        /\ res' = [res EXCEPT ![i] =
                      IF o = "ok" THEN OutPath(urlResults[i]) ELSE ""]
        /\ fs' = IF o = "ok"
                 THEN [fs EXCEPT ![OutPath(urlResults[i])] = urlResults[i]]
                 ELSE fs
    /\ order' = Append(order, i)
    /\ w' = [w EXCEPT ![i] = "ret"]
    /\ UNCHANGED <<extracted, stored, concurrency, canceled, pc, urlResults,
                   downloadList, permits, cur, wg, idx, atCancel>>
    /\ UNCHANGED <<mapvars, evalvars, trvars, phvars, stvars, treevars, flvars,
                   alvars>>

\* line 114: downloadList[i] = p
WorkerWrite(i) ==
    /\ w[i] = "ret"
    /\ downloadList' = [downloadList EXCEPT ![SlotOf(i, idx)] = res[i]]
    /\ w' = [w EXCEPT ![i] = "written"]
    /\ UNCHANGED <<extracted, stored, concurrency, canceled, pc, urlResults,
                   permits, cur, wg, idx, res, fs, cause, order, atCancel>>
    /\ UNCHANGED <<mapvars, evalvars, trvars, phvars, stvars, treevars, flvars,
                   alvars>>

\* line 112: the deferred wg.Done() (deferred last, runs first)
WorkerDone(i) ==
    /\ w[i] = "written"
    /\ wg' = wg - 1
    /\ w' = [w EXCEPT ![i] = "rel"]
    /\ UNCHANGED <<extracted, stored, concurrency, canceled, pc, urlResults,
                   downloadList, permits, cur, idx, res, fs, cause, order,
                   atCancel>>
    /\ UNCHANGED <<mapvars, evalvars, trvars, phvars, stvars, treevars, flvars,
                   alvars>>

\* line 111: the deferred s.Release(1)
WorkerRelease(i) ==
    /\ w[i] = "rel"
    /\ cur' = cur - 1
    /\ w' = [w EXCEPT ![i] = "exit"]
    /\ UNCHANGED <<extracted, stored, concurrency, canceled, pc, urlResults,
                   downloadList, permits, wg, idx, res, fs, cause, order,
                   atCancel>>
    /\ UNCHANGED <<mapvars, evalvars, trvars, phvars, stvars, treevars, flvars,
                   alvars>>

WaitPassesAtOnce(n) == TRUE
\* sync.WaitGroup.Wait returns when the counter is zero
WaitPasses(n) == n = 0

\* line 118: wg.Wait()
MainWait ==
    /\ pc = "wait"
    /\ WaitPasses(wg)
    /\ pc' = "store"
    /\ UNCHANGED <<extracted, stored, concurrency, canceled, urlResults,
                   downloadList, permits, cur, wg, idx, w, res, fs, cause,
                   order, atCancel>>
    /\ UNCHANGED <<mapvars, evalvars, trvars, phvars, stvars, treevars, flvars,
                   alvars>>

\* line 119: r[rule.Name] = downloadList; for a leaf rule lines 121-143
\* find no nested Result and the call returns
MainStore ==
    /\ pc = "store"
    /\ stored' = Strs(downloadList)
    /\ pc' = "done"
    /\ UNCHANGED <<extracted, concurrency, canceled, urlResults, downloadList,
                   permits, cur, wg, idx, w, res, fs, cause, order, atCancel>>
    /\ UNCHANGED <<mapvars, evalvars, trvars, phvars, stvars, treevars, flvars,
                   alvars>>

\* the caller cancels ctx
Cancel ==
    /\ ~canceled
    /\ pc \notin {"call", "done"}
    /\ canceled' = TRUE
    /\ atCancel' = InFlight
    /\ UNCHANGED <<extracted, stored, concurrency, pc, urlResults, downloadList,
                   permits, cur, wg, idx, w, res, fs, cause, order>>
    /\ UNCHANGED <<mapvars, evalvars, trvars, phvars, stvars, treevars, flvars,
                   alvars>>

DLNext ==
    \/ StartBatch
    \/ MainAdd
    \/ MainAcquireErr
    \/ MainDispatch
    \/ \E i \in Workers : WorkerStatHit(i)
    \/ \E i \in Workers : WorkerStatMiss(i)
    \/ \E i \in Workers : WorkerHttp(i)
    \/ \E i \in Workers : WorkerWrite(i)
    \/ \E i \in Workers : WorkerDone(i)
    \/ \E i \in Workers : WorkerRelease(i)
    \/ MainWait
    \/ MainStore
    \/ Cancel


(***************************************************************************)
(* The path remapper: mapper.go.  Go strings are TLA+ strings; a           *)
(* map[string]interface{} is a function from its keys.                     *)
(***************************************************************************)
MaxMappings == 3
Char(s, i) == SubSeq(s, i, i)
IsDigit(c) == c \in {"0", "1", "2", "3", "4", "5", "6", "7", "8", "9"}
DigitVal(c) ==
    CASE c = "0" -> 0 [] c = "1" -> 1 [] c = "2" -> 2 [] c = "3" -> 3
      [] c = "4" -> 4 [] c = "5" -> 5 [] c = "6" -> 6 [] c = "7" -> 7
      [] c = "8" -> 8 [] OTHER -> 9

\* strconv.Atoi of a string of digits
RECURSIVE Atoi(_)
Atoi(d) ==
    IF Len(d) = 0 THEN 0
    ELSE 10 * Atoi(SubSeq(d, 1, Len(d) - 1)) + DigitVal(Char(d, Len(d)))

\* strings.Split(path, ".")
RECURSIVE Split(_)
Split(s) ==
    LET dots == {i \in 1..Len(s) : Char(s, i) = "."}
    IN  IF dots = {} THEN <<s>>
        ELSE LET i == CHOOSE d \in dots : \A e \in dots : d <= e
             IN  <<SubSeq(s, 1, i - 1)>> \o Split(SubSeq(s, i + 1, Len(s)))

\* The end of the match of \[[0-9]+] that starts at i, 0 if none starts there.
MatchEnd(s, i) ==
    IF Char(s, i) # "[" THEN 0
    ELSE LET stops == {j \in (i + 1)..Len(s) : ~IsDigit(Char(s, j))}
         IN  IF stops = {} THEN 0
             ELSE LET j == CHOOSE a \in stops : \A b \in stops : a <= b
                  IN  IF j > i + 1 /\ Char(s, j) = "]" THEN j ELSE 0

\* regexp.FindString: the start of the leftmost match, 0 if there is none.
FindBracket(s) ==
    LET starts == {i \in 1..Len(s) : MatchEnd(s, i) > 0}
    IN  IF starts = {} THEN 0
        ELSE CHOOSE a \in starts : \A b \in starts : a <= b

\* extractNumberFromBrackets: the number in the first [digits] of s,
\* -1 for its error.
extractNumberFromBrackets(s) ==
    LET i == FindBracket(s)
    IN  IF i = 0 THEN -1 ELSE Atoi(SubSeq(s, i + 1, MatchEnd(s, i) - 1))

KeepBrackets(s) == s
RECURSIVE ReplaceAllBrackets(_)
\* regexp.MustCompile(`\[[0-9]+]`).ReplaceAllString(key, "")
ReplaceAllBrackets(s) ==
    LET i == FindBracket(s)
    IN  IF i = 0 THEN s
        ELSE SubSeq(s, 1, i - 1)
               \o ReplaceAllBrackets(SubSeq(s, MatchEnd(s, i) + 1, Len(s)))

PutIfAbsent(m, key, val) == m @@ (key :> val)
\* currentMap[key] = v
Put(m, key, val) == (key :> val) @@ m

\* complexPathing lines 101-115: the last key.  st is "ok", or "panic" for
\* the runtime's index-out-of-range panic on v[n].
SetLast(m, key, value) ==
    IF value.k = "arr"
    THEN LET n == extractNumberFromBrackets(key)
         IN  IF n = -1 \/ n > Len(value.v)
             THEN [m |-> Put(m, key, value), st |-> "ok"]
             ELSE IF n >= Len(value.v)
                  THEN [m |-> m, st |-> "panic"]
                  ELSE [m |-> Put(m, ReplaceAllBrackets(key), value.v[n + 1]),
                        st |-> "ok"]
    ELSE [m |-> Put(m, key, value), st |-> "ok"]

AlwaysNewMap(m, key) == <<>>
\* complexPathing lines 118-130: the map the walk moves into at key, a new
\* one when the key is absent.
NextMap(m, key) == IF key \in DOMAIN m THEN m[key].v ELSE <<>>

RECURSIVE Walk(_, _, _)
\* complexPathing lines 99-139, from position keys[1] on in currentMap m.
\* st is "blocked" when an existing value on the way is not a map.
Walk(m, keys, value) ==
    IF Len(keys) = 1 THEN SetLast(m, keys[1], value)
    ELSE IF keys[1] \in DOMAIN m /\ m[keys[1]].k # "map"
         THEN [m |-> m, st |-> "blocked"]
         ELSE LET sub == Walk(NextMap(m, keys[1]), Tail(keys), value)
              IN  [m |-> Put(m, keys[1], Map(sub.m)), st |-> sub.st]

OnBlockedNil(maps) == <<>>
\* complexPathing line 136: return maps
OnBlocked(maps) == maps

\* complexPathing(maps, path, value): the map it returns and how it ended
complexPathing(maps, path, value) ==
    LET r == Walk(maps, Split(path), value)
    IN  CASE r.st = "ok" -> r
          [] r.st = "blocked" -> [m |-> OnBlocked(maps), st |-> "blocked"]
          [] OTHER -> [m |-> maps, st |-> "panic"]

\* The scrape result handed to MapResultsResults.
SourceResult ==
    [items |-> Arr(<<Str("x"), Str("y"), Str("z")>>),
     s |-> Str("v"),
     e |-> Arr(<<>>),
     obj |-> Map([k |-> Str("w")]),
     rows |-> Arr(<<Map([id |-> Str("1"),
                         tags |-> Arr(<<Str("p"), Str("q")>>)]),
                    Map([id |-> Str("2")])>>)]

\* gjson.GetBytes(data, key).Value() for a plain key.
gjsonGet(src, key) == IF key \in DOMAIN src THEN src[key] ELSE Nil

ForEachFirst(x) == IF x.k = "arr" /\ Len(x.v) > 0 THEN <<x.v[1]>> ELSE <<>>
\* gjson.Result.ForEach: the elements of an array, the one value of a
\* scalar, nothing for a missing value.
ForEachValues(x) ==
    CASE x.k = "arr" -> x.v
      [] x.k = "nil" -> <<>>
      [] x.k = "map" -> LET ks == DOMAIN x.v
                        IN  IF Cardinality(ks) = 1
                            THEN <<x.v[CHOOSE a \in ks : TRUE]>>
                            ELSE <<>>
      [] OTHER -> <<x>>

\* strings.EqualFold on the templates of the model, which are lower case.
EqualFold(s, t) == s = t

\* replacePlaceholdersInterface for templates without the random tokens
\* (uuid, hex, base64) and without the clock.
replacePlaceholdersInterface(raw, index) ==
    LET s == safeString(raw)
    IN  IF s = "" THEN raw
        ELSE IF EqualFold(s, "{{index}}") THEN IntVal(index)
        ELSE IF EqualFold(s, "{{index+1}}") THEN IntVal(index + 1)
        ELSE Str(s)

RECURSIVE deepCopy(_, _)
deepCopy(value, index) ==
    CASE value.k = "map" ->
           Map([x \in DOMAIN value.v |-> deepCopy(value.v[x], index)])
      [] value.k = "arr" ->
           Arr([i \in 1..Len(value.v) |-> deepCopy(value.v[i], i - 1)])
      [] OTHER -> replacePlaceholdersInterface(value, index)

deepCopyMap(m, index) == [x \in DOMAIN m |-> deepCopy(m[x], index)]

\* strings.ReplaceAll(key, "[", ".") then strings.ReplaceAll(key, "]", "")
RECURSIVE NormalizeKey(_)
NormalizeKey(s) ==
    IF Len(s) = 0 THEN s
    ELSE (CASE Char(s, 1) = "[" -> "."
            [] Char(s, 1) = "]" -> ""
            [] OTHER -> Char(s, 1)) \o NormalizeKey(SubSeq(s, 2, Len(s)))

AllDigits(s) == Len(s) > 0 /\ \A i \in 1..Len(s) : IsDigit(Char(s, i))

\* gjson.Result.Get for a dotted path of object keys and array indexes;
\* Absent stands for a result whose Exists() is false.
RECURSIVE PathGet(_, _)
PathGet(x, keys) ==
    IF Len(keys) = 0 THEN x
    ELSE IF x.k = "map" /\ keys[1] \in DOMAIN x.v
         THEN PathGet(x.v[keys[1]], Tail(keys))
    ELSE IF x.k = "arr" /\ AllDigits(keys[1]) /\ Atoi(keys[1]) < Len(x.v)
         THEN PathGet(x.v[Atoi(keys[1]) + 1], Tail(keys))
    ELSE Absent

RECURSIVE RemapRules(_, _, _, _)

\* lines 177-180: gjsonVal
RemapRead(obj, key) ==
    IF key = "" \/ key = "." THEN obj ELSE PathGet(obj, Split(key))

\* lines 192-195: if gjsonVal.Exists() { complexPathing(...) }
RemapAssign(withFormat, to, gjsonVal) ==
    IF gjsonVal.k # "absent" THEN complexPathing(withFormat, to, gjsonVal)
    ELSE [m |-> withFormat, st |-> "ok"]

\* lines 175-195: one rule of the list, remappedObj being acc
RemapOne(obj, rule, index, acc) ==
    RemapAssign(deepCopyMap(rule.Format, index) @@ acc, rule.To,
                RemapRead(obj, NormalizeKey(rule.Key)))

RemapRest(obj, nested, index, acc, r) ==
    IF r.st = "panic" THEN [m |-> acc, st |-> "panic"]
    ELSE RemapRules(obj, Tail(nested), index, r.m)

\* remapSingleObject lines 174-196: the loop over the rules, remappedObj
\* being acc.  st is "panic" when complexPathing panicked.
RemapRules(obj, nested, index, acc) ==
    IF Len(nested) = 0 THEN [m |-> acc, st |-> "ok"]
    ELSE RemapRest(obj, nested, index, acc,
                   RemapOne(obj, Head(nested), index, acc))

\* remapSingleObject(obj, rules, index)
remapSingleObject(obj, nested, index) ==
    RemapRules(obj, nested, index, <<>>)

\* The directives r.Mapping is made of.
Directives ==
    {Directive("", "s", "a", FALSE),
     Directive("", "s", "c", FALSE),
     Directive("", "s", "a.b.c", FALSE),
     Directive("", "obj", "a", FALSE),
     Directive("", "items", "a.b", TRUE),
     Directive("", "items", "a.b[1]", TRUE),
     Directive("", "items", "a.b[3]", TRUE),
     Directive("", "items", "a.b[9]", TRUE),
     Directive("", "items", "a[0].b[1]", TRUE),
     Directive("", "e", "b[0]", TRUE),
     Directive("", "e", "c", TRUE),
     Directive("o", "s", "a", FALSE),
     Directive("o", "s", "a.b", FALSE),
     Directive("o", "items", "a.b[1]", TRUE),
     WithArrayObjMap(Directive("", "rows", "out", FALSE),
                     <<Nested("id", "x.id", <<>>),
                       Nested("tags[0]", "first",
                              [pos |-> Str("{{index}}")])>>),
     WithArrayObjMap(Directive("", "items", "c", TRUE),
                     <<Nested(".", "v", [n |-> Str("{{index+1}}")])>>)}

\* lines 38-60: the value a directive writes
ValueOf(d) ==
    LET each == ForEachValues(gjsonGet(SourceResult, d.Key))
    IN  IF Len(d.ArrayObjMap) > 0
        THEN Arr([i \in 1..Len(each) |->
                    Map(remapSingleObject(each[i], d.ArrayObjMap, i - 1).m)])
        ELSE IF d.IsArray THEN Arr(each)
        ELSE gjsonGet(SourceResult, d.Key)

\* lines 44-52: a call of remapSingleObject inside ForEach panicked
NestedPanics(d) ==
    /\ Len(d.ArrayObjMap) > 0
    /\ LET each == ForEachValues(gjsonGet(SourceResult, d.Key))
       IN  \E i \in 1..Len(each) :
              remapSingleObject(each[i], d.ArrayObjMap, i - 1).st = "panic"

MapInit ==
    /\ aheap = <<>> /\ aroot = 0 /\ aelems = 0 /\ produced = <<>>
    /\ touched = 0 /\ before = <<>> /\ apc = "idle"
    /\ fvals = <<>> /\ fflat = <<>> /\ fpc = "idle"
    /\ batches = <<>> /\ bconc = 0 /\ bctx = FALSE /\ bn = 0 /\ bpc = "idle"
    /\ bidx = 0 /\ bsem = <<>> /\ bwg = <<>> /\ gor = <<>> /\ ua = "nil"
    /\ saved = <<>> /\ stfile = <<>> /\ loaded = <<>> /\ stpc = "idle"
    /\ ptempl = "" /\ pindex = 0 /\ gen = <<>> /\ pcalls = <<>>
    /\ pout = <<>> /\ ppc = "idle"
    /\ remappedData = <<>>
    /\ objMap = <<>>
    /\ mi = 0
    /\ mst = "run"
    /\ ret = Absent
    /\ last = Directive("", "", "", FALSE)
    /\ left = Directive("", "", "", FALSE)
    /\ branch = "none"
    /\ abandoned = FALSE
    /\ over = Absent
    /\ extracted = Absent /\ stored = Absent /\ concurrency = 0
    /\ canceled = FALSE /\ pc = "idle" /\ urlResults = <<>>
    /\ downloadList = <<>> /\ permits = 0 /\ cur = 0 /\ wg = 0 /\ idx = 1
    /\ w = <<>> /\ res = <<>> /\ fs = NoFiles /\ cause = <<>> /\ order = <<>>
    /\ atCancel = {}
    /\ rules = <<>> /\ pageURL = "" /\ failing = {} /\ spc = "idle"
    /\ root = <<>> /\ ri = 0 /\ sret = Absent /\ serr = "nil"
    /\ fetchLog = {}
    /\ traw = Absent /\ tlist = <<>> /\ tpc = "idle" /\ tout = <<>>
    /\ tagain = <<>>

\* The map a directive writes into: lines 62-71 and 73-82.
Target(d) ==
    IF d.Object = "" THEN remappedData
    ELSE IF d.Object \in DOMAIN objMap THEN objMap[d.Object] ELSE <<>>

\* The keys complexPathing walks for directive d, the last one as line 110
\* or line 112 writes it.
DestKeys(d) ==
    LET keys == Split(d.To)
        lk == keys[Len(keys)]
        n == extractNumberFromBrackets(lk)
    IN  IF ValueOf(d).k = "arr" /\ n # -1 /\ n <= Len(ValueOf(d).v)
        THEN Append(SubSeq(keys, 1, Len(keys) - 1), ReplaceAllBrackets(lk))
        ELSE keys

\* The value at a path of keys in map m, Absent if there is none.
RECURSIVE LeafAt(_, _)
LeafAt(m, keys) ==
    IF keys[1] \notin DOMAIN m THEN Absent
    ELSE IF Len(keys) = 1 THEN m[keys[1]]
    ELSE IF m[keys[1]].k = "map" THEN LeafAt(m[keys[1]].v, Tail(keys))
    ELSE Absent

\* What a call of complexPathing did, for the history variable.
BranchOf(d, r) ==
    IF r.st # "ok" THEN r.st
    ELSE IF d.Object # "" THEN "bucket"
    ELSE IF ValueOf(d).k = "arr"
              /\ extractNumberFromBrackets(Split(d.To)[Len(Split(d.To))]) # -1
         THEN IF extractNumberFromBrackets(Split(d.To)[Len(Split(d.To))])
                   < Len(ValueOf(d).v)
              THEN "elem" ELSE "whole"
    ELSE "set"

RECURSIVE Reached(_, _, _, _)

ReachedRest(obj, nested, index, r) ==
    IF r.st = "panic" THEN 1 ELSE 1 + Reached(obj, Tail(nested), index, r.m)

\* remapSingleObject lines 174-176: the rules whose Key the loop over one
\* element rewrote, a panic ending the loop
Reached(obj, nested, index, acc) ==
    IF Len(nested) = 0 THEN 0
    ELSE ReachedRest(obj, nested, index,
                     RemapOne(obj, Head(nested), index, acc))

\* rule.Key = strings.ReplaceAll(...) on the first n rules of the list
KeysRewritten(nested, n) ==
    [j \in 1..Len(nested) |->
       IF j <= n THEN [nested[j] EXCEPT !.Key = NormalizeKey(nested[j].Key)]
       ELSE nested[j]]

\* The directive after its iteration: remapSingleObject writes the
\* normalised Key back into the rules of ArrayObjMap (lines 175-176).
MappingAfter(d) ==
    LET each == ForEachValues(gjsonGet(SourceResult, d.Key))
    IN  IF Len(d.ArrayObjMap) = 0 \/ Len(each) = 0 THEN d
        ELSE [d EXCEPT !.ArrayObjMap =
                KeysRewritten(d.ArrayObjMap,
                              Reached(each[1], d.ArrayObjMap, 0, <<>>))]

\* lines 37-84: one iteration of the loop over r.Mapping, on directive d
MapStep(d) ==
    /\ mst = "run"
    /\ mi < MaxMappings
    /\ LET r == IF NestedPanics(d) THEN [m |-> Target(d), st |-> "panic"]
                ELSE complexPathing(Target(d), d.To, ValueOf(d))
       IN  /\ mst' = IF r.st = "panic" THEN "panic" ELSE "run"
           /\ remappedData' = IF d.Object = "" THEN r.m ELSE remappedData
           /\ objMap' = IF d.Object = "" \/ r.st = "panic" THEN objMap
                        ELSE Put(objMap, d.Object, r.m)
           /\ last' = d
           /\ branch' = BranchOf(d, r)
           /\ abandoned' = (abandoned \/ r.st = "blocked")
           /\ over' = LeafAt(Target(d), DestKeys(d))
           /\ left' = MappingAfter(d)
    /\ mi' = mi + 1
    /\ UNCHANGED ret
    /\ UNCHANGED <<dlvars, evalvars, trvars, phvars, stvars, treevars, flvars,
                   alvars>>

ReturnedMap(data, buckets) == Map(data)

\* line 86: return remappedData, nil
MapReturn ==
    /\ mst = "run"
    /\ mst' = "done"
    /\ ret' = ReturnedMap(remappedData, objMap)
    /\ UNCHANGED <<remappedData, objMap, mi, last, branch, abandoned, over,
                   left>>
    /\ UNCHANGED <<dlvars, evalvars, trvars, phvars, stvars, treevars, flvars,
                   alvars>>

MapNext ==
    \/ \E d \in Directives : MapStep(d)
    \/ MapReturn

(***************************************************************************)
(* The transform pipeline: applyTransform and applyTransforms.  The        *)
(* patterns of the model are literals, literals anchored with ^, and "("   *)
(* which regexp.Compile rejects; Replace strings hold no $ references.     *)
(***************************************************************************)
\* A transform (type Transforms).
Tr(match, replace, split) ==
    [Match |-> match, Replace |-> replace, Split |-> split]

\* regexp.Compile(match): err for an unclosed group, else the literal and
\* whether it is anchored at the start of the text.
Compile(match) ==
    IF \E i \in 1..Len(match) : Char(match, i) = "("
    THEN [err |-> TRUE, anchored |-> FALSE, lit |-> ""]
    ELSE IF Len(match) > 0 /\ Char(match, 1) = "^"
         THEN [err |-> FALSE, anchored |-> TRUE,
               lit |-> SubSeq(match, 2, Len(match))]
         ELSE [err |-> FALSE, anchored |-> FALSE, lit |-> match]

\* The pattern matches the text at position i.
MatchAt(ss, re, i) ==
    /\ Len(re.lit) > 0
    /\ i + Len(re.lit) - 1 <= Len(ss)
    /\ SubSeq(ss, i, i + Len(re.lit) - 1) = re.lit
    /\ re.anchored => i = 1

RECURSIVE ReplaceFrom(_, _, _, _)
ReplaceFrom(ss, re, repl, i) ==
    IF i > Len(ss) THEN ""
    ELSE IF MatchAt(ss, re, i)
         THEN repl \o ReplaceFrom(ss, re, repl, i + Len(re.lit))
         ELSE Char(ss, i) \o ReplaceFrom(ss, re, repl, i + 1)

AppendReplacement(ss, re, repl) == ss \o repl
\* r.ReplaceAllString(ss, replace): every non-overlapping match, leftmost
\* first, is replaced.
ReplaceAllString(ss, re, repl) == ReplaceFrom(ss, re, repl, 1)

RECURSIVE SplitFrom(_, _, _, _)
SplitFrom(ss, re, i, beg) ==
    IF i > Len(ss) THEN <<SubSeq(ss, beg, Len(ss))>>
    ELSE IF MatchAt(ss, re, i)
         THEN <<SubSeq(ss, beg, i - 1)>>
                \o SplitFrom(ss, re, i + Len(re.lit), i + Len(re.lit))
         ELSE SplitFrom(ss, re, i + 1, beg)

\* r.Split(ss, -1) for a non-empty text: the pieces between the matches,
\* empty pieces included.
RegexSplit(ss, re) == SplitFrom(ss, re, 1, 1)

\* lines 556-560: the non-empty pieces, as interface{} values
RECURSIVE NonEmptyPieces(_)
NonEmptyPieces(ps) ==
    IF Len(ps) = 0 THEN <<>>
    ELSE (IF Len(Head(ps)) > 0 THEN <<Str(Head(ps))>> ELSE <<>>)
           \o NonEmptyPieces(Tail(ps))

RECURSIVE TransformLoop(_, _, _)
\* applyTransform lines 548-563: the loop over the transforms, from the
\* text ss and the fragments o collected so far
TransformLoop(ss, t, o) ==
    IF Len(t) = 0 THEN [ss |-> ss, o |-> o]
    ELSE LET re == Compile(Head(t).Match)
         IN  IF re.err THEN TransformLoop(ss, Tail(t), o)
             ELSE IF Head(t).Split
                  THEN TransformLoop(ss, Tail(t),
                                     o \o NonEmptyPieces(RegexSplit(ss, re)))
                  ELSE TransformLoop(
                         ReplaceAllString(ss, re, Head(t).Replace),
                         Tail(t), o)

\* applyTransform(raw, t...): the []interface{} it returns
applyTransform(raw, t) ==
    IF Len(t) = 0 THEN <<raw>>
    ELSE LET ss == safeString(raw)
         IN  IF ss = "" THEN <<raw>>
             ELSE LET r == TransformLoop(ss, t, <<>>)
                  IN  IF Len(r.o) > 0 THEN r.o ELSE <<Str(r.ss)>>

TransformsOfFirst(raw, t) ==
    IF Len(raw) = 0 THEN <<>> ELSE applyTransform(Head(raw), t)
RECURSIVE applyTransforms(_, _)
\* applyTransforms(raw, t...)
applyTransforms(raw, t) ==
    IF Len(raw) = 0 THEN <<>>
    ELSE applyTransform(Head(raw), t) \o applyTransforms(Tail(raw), t)

\* One pass over vals that opens the lists among its elements and goes no
\* deeper.
RECURSIVE flattenOne(_)
flattenOne(vals) ==
    IF Len(vals) = 0 THEN <<>>
    ELSE (IF Head(vals).k = "arr" THEN Head(vals).v
          ELSE <<Head(vals)>>) \o flattenOne(Tail(vals))

RECURSIVE flattenList(_)
\* flattenList(vals)
flattenList(vals) ==
    IF Len(vals) = 0 THEN <<>>
    ELSE (IF Head(vals).k = "arr" THEN flattenList(Head(vals).v)
          ELSE <<Head(vals)>>) \o flattenList(Tail(vals))

(***************************************************************************)
(* The rule evaluator: Scrape and applyRule.  A document is the sequence   *)
(* of its elements in document order; a selection is one element of one   *)
(* document, or empty.  Progress reporting (rp) is left out: it does not   *)
(* take part in the Result.                                                *)
(***************************************************************************)
MaxRules == 2
\* An element: its parent's position, the one selector that matches it,
\* its text and its attributes.
Node(parent, cls, text, attrs) ==
    [parent |-> parent, cls |-> cls, text |-> text, attrs |-> attrs]

ListURL == "http://h/list"
BadURL == "%zz"

\* The list page: two items with a title and tags; the first item has an
\* id and an src that is no URL, the second has no id.
ListPage ==
    <<Node(0, "html", "", <<>>),
      Node(1, "item", " Book 1 t1 t2 ",
           [href |-> "/p1", id |-> "1", src |-> BadURL]),
      Node(2, "title", " Book 1 ", <<>>),
      Node(2, "tag", "t1", <<>>),
      Node(2, "tag", "t2", <<>>),
      Node(1, "item", "Book 2 t3", [href |-> "p2"]),
      Node(6, "title", "Book 2", <<>>),
      Node(6, "tag", "t3", <<>>)>>

\* The pages the items link to.
DetailPage1 ==
    <<Node(0, "html", "", <<>>),
      Node(1, "title", "Page 1", <<>>),
      Node(1, "tag", "u1", <<>>)>>
DetailPage2 ==
    <<Node(0, "html", "", <<>>),
      Node(1, "title", "Page 2", <<>>)>>

\* The document the Fetcher serves at a URL.
DocAt(u) ==
    CASE u = "http://h/p1" -> DetailPage1
      [] u = "http://h/p2" -> DetailPage2
      [] OTHER -> ListPage

FetchNeverFails(u, fail) == TRUE
\* fetcher.Fetch(u) returns no error
FetchOk(u, fail) == u \notin fail

EmptySel == [d |-> "", n |-> 0]
\* doc.Selection
DocSelection(u) == [d |-> u, n |-> 1]

RECURSIVE Under(_, _, _)
\* element n lies below element a
Under(doc, n, a) ==
    IF n = 0 THEN FALSE
    ELSE doc[n].parent = a \/ Under(doc, doc[n].parent, a)

RECURSIVE FindFrom(_, _, _)
FindFrom(sel, selector, i) ==
    IF i > Len(DocAt(sel.d)) THEN <<>>
    ELSE (IF /\ Under(DocAt(sel.d), i, sel.n)
             /\ (selector = "*" \/ DocAt(sel.d)[i].cls = selector)
          THEN <<[d |-> sel.d, n |-> i]>> ELSE <<>>)
           \o FindFrom(sel, selector, i + 1)

\* sel.Find(selector): the matching elements below sel, in document order
Find(sel, selector) == IF sel.n = 0 THEN <<>> ELSE FindFrom(sel, selector, 1)

\* .First()
First(found) == IF Len(found) = 0 THEN EmptySel ELSE found[1]

\* s.Attr(name): "" when the selection is empty or has no such attribute
AttrOf(s, name) ==
    IF s.n = 0 THEN ""
    ELSE IF name \in DOMAIN DocAt(s.d)[s.n].attrs
         THEN DocAt(s.d)[s.n].attrs[name] ELSE ""

\* s.Text()
TextOf(s) == IF s.n = 0 THEN "" ELSE DocAt(s.d)[s.n].text

RECURSIVE TrimSpace(_)
\* strings.TrimSpace
TrimSpace(t) ==
    IF Len(t) = 0 THEN t
    ELSE IF Char(t, 1) = " " THEN TrimSpace(SubSeq(t, 2, Len(t)))
    ELSE IF Char(t, Len(t)) = " " THEN TrimSpace(SubSeq(t, 1, Len(t) - 1))
    ELSE t

\* url.Parse / base.Parse returns an error: an invalid escape
ParseFails(raw) == Len(raw) > 0 /\ Char(raw, 1) = "%"

\* base.Parse(raw).String() for the base http://h/list
Resolve(raw) ==
    IF Len(raw) >= 4 /\ SubSeq(raw, 1, 4) = "http" THEN raw
    ELSE IF Len(raw) >= 2 /\ SubSeq(raw, 1, 2) = "//" THEN "http:" \o raw
    ELSE IF Len(raw) >= 1 /\ Char(raw, 1) = "/" THEN "http://h" \o raw
    ELSE "http://h/" \o raw

\* An extraction rule (type ExtractionRule).
Rule(name, selector, attr, multiple, visit, download, flatten, tr, kids) ==
    [Name |-> name, Selector |-> selector, Attr |-> attr,
     Multiple |-> multiple, Visit |-> visit, Download |-> download,
     Flatten |-> flatten, Transforms |-> tr, Children |-> kids]

\* applyRule lines 406-413: the transforms a rule without any is given
DefaultTransforms == <<Tr("^//", "https://", FALSE)>>
WithDefault(rule) ==
    IF Len(rule.Transforms) = 0
    THEN [rule EXCEPT !.Transforms = DefaultTransforms] ELSE rule

\* raw is resolved against the base: lines 429-430, 481-482, 506-507
Resolves(rule, raw) ==
    (rule.Download \/ rule.Visit) /\ raw # "" /\ ~ParseFails(raw)

RawOnFetchError(raw, resolved) == raw
\* line 452: rec[rule.Attr] = u2.String()
OnFetchError(raw, resolved) == resolved

RECURSIVE applyRule(_, _, _)
RECURSIVE EvalChildren(_, _, _, _)
RECURSIVE EachRecord(_, _, _)

\* if v, err := applyRule(...); err == nil { rec[c.Name] = v }, then the
\* children after c
ChildStep(fail, scope, children, rec, one, rest) ==
    [m |-> rest.m, f |-> one.f \cup rest.f, kids |-> <<one.r>> \o rest.kids]

ChildRec(rec, name, one) == IF one.err THEN rec ELSE Put(rec, name, one.v)

ChildNext(fail, scope, children, rec, one) ==
    ChildStep(fail, scope, children, rec, one,
              EvalChildren(fail, scope, Tail(children),
                           ChildRec(rec, Head(children).Name, one)))

\* for _, c := range children { ... }: the record, the URLs fetched, and
\* the children as the calls left them
EvalChildren(fail, scope, children, rec) ==
    IF Len(children) = 0 THEN [m |-> rec, f |-> {}, kids |-> <<>>]
    ELSE ChildNext(fail, scope, children, rec,
                   applyRule(fail, scope, Head(children)))

\* lines 426-463: the record after the attribute, sub being the children
\* evaluated against the fetched document
RecordAttr(rule, raw, u2, visited, fetched, sub) ==
    IF rule.Attr = "" THEN <<>>
    ELSE IF fetched THEN sub.m
    ELSE IF visited THEN Put(<<>>, rule.Attr, Str(OnFetchError(raw, u2)))
    ELSE IF Resolves(rule, raw) THEN Put(<<>>, rule.Attr, Str(u2))
    ELSE Put(<<>>, rule.Attr, Str(raw))

RecordEnd(u2, visited, sub, own) ==
    [m |-> own.m,
     f |-> (IF visited THEN {u2} ELSE {}) \cup sub.f \cup own.f,
     kids |-> own.kids]

\* lines 464-473: the child rules against the matched element, unless Visit
RecordOwn(fail, s, rule, u2, visited, sub, rec) ==
    RecordEnd(u2, visited, sub,
              IF ~rule.Visit THEN EvalChildren(fail, s, sub.kids, rec)
              ELSE [m |-> rec, f |-> {}, kids |-> sub.kids])

RecordSub(fail, s, rule, raw, u2, visited, fetched, sub) ==
    RecordOwn(fail, s, rule, u2, visited, sub,
              RecordAttr(rule, raw, u2, visited, fetched, sub))

\* lines 431-447: fetcher.Fetch(u2.String()) and the children against the
\* fetched document
RecordVisit(fail, s, rule, raw, u2, visited) ==
    RecordSub(fail, s, rule, raw, u2, visited, visited /\ FetchOk(u2, fail),
              IF visited /\ FetchOk(u2, fail)
              THEN EvalChildren(fail, DocSelection(u2), rule.Children, <<>>)
              ELSE [m |-> <<>>, f |-> {}, kids |-> rule.Children])

RecordRaw(fail, s, rule, raw) ==
    RecordVisit(fail, s, rule, raw, Resolve(raw),
                rule.Attr # "" /\ Resolves(rule, raw) /\ rule.Visit)

\* lines 423-471: the record of one matched element s of a Multiple rule
\* with Children
RecordOf(fail, s, rule) == RecordRaw(fail, s, rule, AttrOf(s, rule.Attr))

EachJoin(one, rest) ==
    [list |-> <<Map(one.m)>> \o rest.list, f |-> one.f \cup rest.f,
     kids |-> rest.kids]

EachNext(fail, found, rule, one) ==
    EachJoin(one, EachRecord(fail, Tail(found),
                             [rule EXCEPT !.Children = one.kids]))

\* lines 422-473: .Each over the matched elements
EachRecord(fail, found, rule) ==
    IF Len(found) = 0 THEN [list |-> <<>>, f |-> {}, kids |-> rule.Children]
    ELSE EachNext(fail, found, rule, RecordOf(fail, Head(found), rule))

\* line 474: return applyTransforms(list, rule.Transforms...), nil
MultipleResult(rule, e) ==
    [v |-> Arr(applyTransforms(e.list, rule.Transforms)), err |-> FALSE,
     f |-> e.f, r |-> [rule EXCEPT !.Children = e.kids]]

\* lines 479-489: the record-level attribute of a single rule with Children
SingleAttr(rule, raw) ==
    IF rule.Attr = "" THEN <<>>
    ELSE IF Resolves(rule, raw) THEN Put(<<>>, rule.Attr, Str(Resolve(raw)))
    ELSE Put(<<>>, rule.Attr, Arr(applyTransform(Str(raw), rule.Transforms)))

\* line 495: return rec, nil; no call of fetcher.Fetch in lines 476-496
SingleResult(rule, raw, c) ==
    [v |-> Map(c.m), err |-> FALSE, f |-> c.f,
     r |-> [rule EXCEPT !.Children = c.kids]]

\* lines 502-515: the value of one match of a Multiple leaf rule
LeafValue(rule, s, a) ==
    IF rule.Attr # "" THEN Str(IF Resolves(rule, a) THEN Resolve(a) ELSE a)
    ELSE Str(TrimSpace(TextOf(s)))

LeafValues(rule, found) ==
    [i \in 1..Len(found) |->
       LeafValue(rule, found[i], AttrOf(found[i], rule.Attr))]

\* lines 516-519: Flatten, then the transforms
LeafMultipleResult(rule, vals) ==
    [v |-> Arr(applyTransforms(IF rule.Flatten THEN flattenList(vals)
                               ELSE vals, rule.Transforms)),
     err |-> FALSE, f |-> {}, r |-> rule]

\* lines 521-527: the first match of a leaf rule
LeafSingleResult(rule, s, raw) ==
    [v |-> Arr(applyTransform(Str(IF rule.Attr # "" THEN raw
                                    ELSE TrimSpace(TextOf(s))),
                                rule.Transforms)),
     err |-> FALSE, f |-> {}, r |-> rule]

\* lines 414-527, s being the first match and raw its attribute
applyFound(fail, rule, found, s, raw) ==
    IF Len(rule.Children) > 0
    THEN IF rule.Multiple
         THEN MultipleResult(rule, EachRecord(fail, found, rule))
         ELSE SingleResult(rule, raw,
                           EvalChildren(fail, s, rule.Children,
                                        SingleAttr(rule, raw)))
    ELSE IF rule.Multiple
         THEN LeafMultipleResult(rule, LeafValues(rule, found))
         ELSE LeafSingleResult(rule, s, raw)

applyDefaulted(fail, rule, found) ==
    applyFound(fail, rule, found, First(found),
               AttrOf(First(found), rule.Attr))

applySelected(fail, sel, rule) ==
    applyDefaulted(fail, rule, Find(sel, rule.Selector))

\* applyRule(fetcher, sel, rule, base, rp): the value and the error it
\* returns, the URLs it fetched, and the rule as the call left it
applyRule(fail, sel, rule0) == applySelected(fail, sel, WithDefault(rule0))

\* The children of the rules with Children.
Kids ==
    <<Rule("title", "title", "", FALSE, FALSE, FALSE, FALSE, <<>>, <<>>),
      Rule("tags", "tag", "", TRUE, FALSE, FALSE, FALSE, <<>>, <<>>)>>

ParentRules ==
    {Rule("books", sel, attr, multiple, visit, FALSE, FALSE, <<>>, Kids) :
       sel \in {"item", "none"}, attr \in {"", "href", "src"},
       multiple \in BOOLEAN, visit \in BOOLEAN}

TransformLists ==
    {<<>>, <<Tr(" ", "", TRUE)>>, <<Tr("(", "", FALSE)>>}

LeafRules ==
    {Rule("f", sel, attr, multiple, FALSE, attr = "href", sel = "tag", t,
          <<>>) :
       sel \in {"item", "tag", "none"}, attr \in {"", "href", "id"},
       multiple \in BOOLEAN, t \in TransformLists}

\* The rules that may follow the first one: one of another name and one of
\* the same name as the parent rules.
MoreRules ==
    {Rule("g", "title", "", TRUE, FALSE, FALSE, FALSE, <<>>, <<>>),
     Rule("books", "tag", "", FALSE, FALSE, FALSE, FALSE, <<>>, <<>>)}

RuleLists ==
    {<<r>> \o t : r \in ParentRules \cup LeafRules,
                  t \in UNION {[1..n -> MoreRules] : n \in 0..(MaxRules - 1)}}

EvalInit ==
    /\ aheap = <<>> /\ aroot = 0 /\ aelems = 0 /\ produced = <<>>
    /\ touched = 0 /\ before = <<>> /\ apc = "idle"
    /\ fvals = <<>> /\ fflat = <<>> /\ fpc = "idle"
    /\ batches = <<>> /\ bconc = 0 /\ bctx = FALSE /\ bn = 0 /\ bpc = "idle"
    /\ bidx = 0 /\ bsem = <<>> /\ bwg = <<>> /\ gor = <<>> /\ ua = "nil"
    /\ saved = <<>> /\ stfile = <<>> /\ loaded = <<>> /\ stpc = "idle"
    /\ ptempl = "" /\ pindex = 0 /\ gen = <<>> /\ pcalls = <<>>
    /\ pout = <<>> /\ ppc = "idle"
    /\ rules \in RuleLists
    /\ pageURL \in {ListURL, BadURL}
    /\ failing \in SUBSET {ListURL, "http://h/p1", "http://h/p2"}
    /\ spc = "fetch"
    /\ root = <<>>
    /\ ri = 0
    /\ sret = Absent
    /\ serr = "nil"
    /\ fetchLog = {}
    /\ extracted = Absent /\ stored = Absent /\ concurrency = 0
    /\ canceled = FALSE /\ pc = "idle" /\ urlResults = <<>>
    /\ downloadList = <<>> /\ permits = 0 /\ cur = 0 /\ wg = 0 /\ idx = 1
    /\ w = <<>> /\ res = <<>> /\ fs = NoFiles /\ cause = <<>> /\ order = <<>>
    /\ atCancel = {}
    /\ remappedData = <<>> /\ objMap = <<>> /\ mi = 0 /\ mst = "idle"
    /\ ret = Absent /\ last = Directive("", "", "", FALSE)
    /\ left = Directive("", "", "", FALSE)
    /\ branch = "none" /\ abandoned = FALSE /\ over = Absent
    /\ traw = Absent /\ tlist = <<>> /\ tpc = "idle" /\ tout = <<>>
    /\ tagain = <<>>

\* lines 265-268: doc, err := fetcher.Fetch(pageURL)
ScrapeFetch ==
    /\ spc = "fetch"
    /\ fetchLog' = fetchLog \cup {pageURL}
    /\ IF FetchOk(pageURL, failing)
       THEN spc' = "parse" /\ UNCHANGED <<sret, serr>>
       ELSE spc' = "done" /\ sret' = Nil /\ serr' = "fetch"
    /\ UNCHANGED <<rules, pageURL, failing, root, ri>>
    /\ UNCHANGED <<dlvars, mapvars, trvars, phvars, stvars, treevars, flvars,
                   alvars>>

\* lines 269-274: base, err := url.Parse(pageURL); root := Result{}
ScrapeParse ==
    /\ spc = "parse"
    /\ IF ParseFails(pageURL)
       THEN spc' = "done" /\ sret' = Nil /\ serr' = "parse"
       ELSE spc' = "loop" /\ UNCHANGED <<sret, serr>>
    /\ root' = <<>>
    /\ UNCHANGED <<rules, pageURL, failing, ri, fetchLog>>
    /\ UNCHANGED <<dlvars, mapvars, trvars, phvars, stvars, treevars, flvars,
                   alvars>>

\* lines 277-284: one iteration of the loop over the rules
ScrapeRule ==
    /\ spc = "loop"
    /\ ri < Len(rules)
    /\ LET a == applyRule(failing, DocSelection(pageURL), rules[ri + 1])
       IN  /\ rules' = [rules EXCEPT ![ri + 1] = a.r]
           /\ fetchLog' = fetchLog \cup a.f
           /\ IF a.err
              THEN /\ spc' = "done" /\ sret' = Nil /\ serr' = "rule"
                   /\ UNCHANGED <<root, ri>>
              ELSE /\ root' = Put(root, rules[ri + 1].Name, a.v)
                   /\ ri' = ri + 1
                   /\ UNCHANGED <<spc, sret, serr>>
    /\ UNCHANGED <<pageURL, failing>>
    /\ UNCHANGED <<dlvars, mapvars, trvars, phvars, stvars, treevars, flvars,
                   alvars>>

\* line 285: return root, nil
ScrapeReturn ==
    /\ spc = "loop"
    /\ ri = Len(rules)
    /\ spc' = "done"
    /\ sret' = Map(root)
    /\ serr' = "nil"
    /\ UNCHANGED <<rules, pageURL, failing, root, ri, fetchLog>>
    /\ UNCHANGED <<dlvars, mapvars, trvars, phvars, stvars, treevars, flvars,
                   alvars>>

EvalNext ==
    \/ ScrapeFetch
    \/ ScrapeParse
    \/ ScrapeRule
    \/ ScrapeReturn

(***************************************************************************)
(* applyTransform on its own: one value, one transform list.               *)
(***************************************************************************)
MaxTransforms == 2
\* The values applyRule hands to applyTransform: texts and attribute
\* values, and the records of a rule with Children.
TransformInputs ==
    {Str("a-b"), Str("a,b-c"), Str("//x"), Str("-"), Str(""),
     Map([title |-> Str("a-b")])}

TransformSet ==
    {Tr("-", "", TRUE), Tr(",", "", TRUE), Tr("q", "", TRUE),
     Tr("a", "z", FALSE), Tr("q", "r", FALSE), Tr("^//", "https://", FALSE),
     Tr("(", "r", FALSE)}

TrInit ==
    /\ aheap = <<>> /\ aroot = 0 /\ aelems = 0 /\ produced = <<>>
    /\ touched = 0 /\ before = <<>> /\ apc = "idle"
    /\ fvals = <<>> /\ fflat = <<>> /\ fpc = "idle"
    /\ batches = <<>> /\ bconc = 0 /\ bctx = FALSE /\ bn = 0 /\ bpc = "idle"
    /\ bidx = 0 /\ bsem = <<>> /\ bwg = <<>> /\ gor = <<>> /\ ua = "nil"
    /\ saved = <<>> /\ stfile = <<>> /\ loaded = <<>> /\ stpc = "idle"
    /\ ptempl = "" /\ pindex = 0 /\ gen = <<>> /\ pcalls = <<>>
    /\ pout = <<>> /\ ppc = "idle"
    /\ traw \in TransformInputs
    /\ tlist \in UNION {[1..n -> TransformSet] : n \in 0..MaxTransforms}
    /\ tpc = "start"
    /\ tout = <<>>
    /\ tagain = <<>>
    /\ extracted = Absent /\ stored = Absent /\ concurrency = 0
    /\ canceled = FALSE /\ pc = "idle" /\ urlResults = <<>>
    /\ downloadList = <<>> /\ permits = 0 /\ cur = 0 /\ wg = 0 /\ idx = 1
    /\ w = <<>> /\ res = <<>> /\ fs = NoFiles /\ cause = <<>> /\ order = <<>>
    /\ atCancel = {}
    /\ remappedData = <<>> /\ objMap = <<>> /\ mi = 0 /\ mst = "idle"
    /\ ret = Absent /\ last = Directive("", "", "", FALSE)
    /\ left = Directive("", "", "", FALSE)
    /\ branch = "none" /\ abandoned = FALSE /\ over = Absent
    /\ rules = <<>> /\ pageURL = "" /\ failing = {} /\ spc = "idle"
    /\ root = <<>> /\ ri = 0 /\ sret = Absent /\ serr = "nil"
    /\ fetchLog = {}

\* applyTransform(raw, t...)
ApplyOnce ==
    /\ tpc = "start"
    /\ tout' = applyTransform(traw, tlist)
    /\ tpc' = "once"
    /\ UNCHANGED <<traw, tlist, tagain>>
    /\ UNCHANGED <<dlvars, mapvars, evalvars, phvars, stvars, treevars, flvars,
                   alvars>>

\* applyTransforms(o, t...) on what the first call returned
ApplyAgain ==
    /\ tpc = "once"
    /\ tagain' = applyTransforms(tout, tlist)
    /\ tpc' = "twice"
    /\ UNCHANGED <<traw, tlist, tout>>
    /\ UNCHANGED <<dlvars, mapvars, evalvars, phvars, stvars, treevars, flvars,
                   alvars>>

TrNext ==
    \/ ApplyOnce
    \/ ApplyAgain

(***************************************************************************)
(* Placeholder tokens: replacePlaceholders and the scalar branch of        *)
(* replacePlaceholdersInterface.  uuid.New, rand.Read and time.Now are     *)
(* inputs of the call: the record g holds the value each returns.          *)
(***************************************************************************)
MaxDraw == 2
MaxIndex == 1
Digits == <<"0", "1", "2", "3", "4", "5", "6", "7", "8", "9">>

\* fmt.Sprintf("%d", n) for n >= 0
RECURSIVE Itoa(_)
Itoa(n) ==
    IF n < 10 THEN Digits[n + 1]
    ELSE Itoa(n \div 10) \o Digits[(n % 10) + 1]

HasAt(s, sub, i) ==
    i + Len(sub) - 1 <= Len(s) /\ SubSeq(s, i, i + Len(sub) - 1) = sub

\* strings.Contains
Contains(s, sub) == \E i \in 1..Len(s) : HasAt(s, sub, i)

RECURSIVE ReplaceAllFrom(_, _, _, _)
ReplaceAllFrom(s, old, new, i) ==
    IF i > Len(s) THEN ""
    ELSE IF HasAt(s, old, i)
         THEN new \o ReplaceAllFrom(s, old, new, i + Len(old))
         ELSE Char(s, i) \o ReplaceAllFrom(s, old, new, i + 1)

\* strings.ReplaceAll for a non-empty old
ReplaceAll(s, old, new) == ReplaceAllFrom(s, old, new, 1)

\* One "if strings.Contains(s, token) { v := generate(); s =
\* strings.ReplaceAll(s, token, v) }" block: one value for the string.
Substitute(s, token, value) ==
    IF Contains(s, token) THEN ReplaceAll(s, token, value) ELSE s

\* The four blocks every template string goes through.
RandomTokens(s, g) ==
    Substitute(Substitute(Substitute(Substitute(s, "{{uuid}}", g.uuid),
                                     "{{hex}}", g.hex),
                          "{{base64}}", g.base64),
               "{{unix}}", Itoa(g.unix))

replacePlaceholders(s, index, g) ==
    Substitute(RandomTokens(s, g), "{{index}}", Itoa(index))

\* replacePlaceholdersInterface with the generators: the whole-string
\* tokens first, then the four blocks.
replacePlaceholdersDrawn(raw, index, g) ==
    LET s == safeString(raw)
    IN  IF s = "" THEN raw
        ELSE IF EqualFold(s, "{{unix}}") THEN IntVal(g.unix)
        ELSE IF EqualFold(s, "{{time}}") THEN [k |-> "time", v |-> g.unix]
        ELSE IF EqualFold(s, "{{index}}") THEN IntVal(index)
        ELSE IF EqualFold(s, "{{index+1}}") THEN IntVal(index + 1)
        ELSE Str(RandomTokens(s, g))

\* The scalar tokens replacePlaceholdersInterface returns early on.
WholeTokens == {"{{unix}}", "{{time}}", "{{index}}", "{{index+1}}"}

Once(s, token) == IF Contains(s, token) THEN 1 ELSE 0

\* How often one call runs uuid.New, and rand.Read for hex and for base64.
\* The generated values hold no "{", so a block sees the tokens of s.
GeneratorCalls(s) ==
    [uuid |-> Once(s, "{{uuid}}"), hex |-> Once(s, "{{hex}}"),
     base64 |-> Once(s, "{{base64}}")]

NoCalls == [uuid |-> 0, hex |-> 0, base64 |-> 0]

Draws ==
    [uuid : {"u" \o Itoa(n) : n \in 1..MaxDraw},
     hex : {"h" \o Itoa(n) : n \in 1..MaxDraw},
     base64 : {"b" \o Itoa(n) : n \in 1..MaxDraw},
     unix : 1..MaxDraw]

Templates ==
    {"", "plain", "{{uuid}}", "{{uuid}}-{{uuid}}", "{{hex}}{{hex}}",
     "{{base64}}:{{base64}}", "{{uuid}}/{{hex}}", "{{index}}",
     "i{{index}}-{{index}}", "{{index+1}}", "{{unix}}", "{{time}}",
     "t{{unix}}"}

TokInit ==
    /\ aheap = <<>> /\ aroot = 0 /\ aelems = 0 /\ produced = <<>>
    /\ touched = 0 /\ before = <<>> /\ apc = "idle"
    /\ fvals = <<>> /\ fflat = <<>> /\ fpc = "idle"
    /\ batches = <<>> /\ bconc = 0 /\ bctx = FALSE /\ bn = 0 /\ bpc = "idle"
    /\ bidx = 0 /\ bsem = <<>> /\ bwg = <<>> /\ gor = <<>> /\ ua = "nil"
    /\ saved = <<>> /\ stfile = <<>> /\ loaded = <<>> /\ stpc = "idle"
    /\ extracted = Absent /\ stored = Absent /\ concurrency = 0
    /\ canceled = FALSE /\ pc = "idle" /\ urlResults = <<>>
    /\ downloadList = <<>> /\ permits = 0 /\ cur = 0 /\ wg = 0 /\ idx = 1
    /\ w = <<>> /\ res = <<>> /\ fs = NoFiles /\ cause = <<>> /\ order = <<>>
    /\ atCancel = {}
    /\ remappedData = <<>> /\ objMap = <<>> /\ mi = 0 /\ mst = "idle"
    /\ ret = Absent /\ last = Directive("", "", "", FALSE)
    /\ left = Directive("", "", "", FALSE)
    /\ branch = "none" /\ abandoned = FALSE /\ over = Absent
    /\ rules = <<>> /\ pageURL = "" /\ failing = {} /\ spc = "idle"
    /\ root = <<>> /\ ri = 0 /\ sret = Absent /\ serr = "nil"
    /\ fetchLog = {}
    /\ traw = Absent /\ tlist = <<>> /\ tpc = "idle"
    /\ tout = <<>> /\ tagain = <<>>
    /\ ptempl \in Templates
    /\ pindex \in 0..MaxIndex
    /\ gen = <<>> /\ pcalls = NoCalls /\ pout = Absent /\ ppc = "start"

\* replacePlaceholders(s, index)
ResolveString ==
    /\ ppc = "start"
    /\ \E g \in Draws :
         /\ gen' = g
         /\ pout' = Str(replacePlaceholders(ptempl, pindex, g))
    /\ pcalls' = GeneratorCalls(ptempl)
    /\ ppc' = "string"
    /\ UNCHANGED <<ptempl, pindex>>
    /\ UNCHANGED <<dlvars, mapvars, evalvars, trvars, stvars, treevars, flvars,
                   alvars>>

\* replacePlaceholdersInterface(raw, index) on a string
ResolveInterface ==
    /\ ppc = "start"
    /\ \E g \in Draws :
         /\ gen' = g
         /\ pout' = replacePlaceholdersDrawn(Str(ptempl), pindex, g)
    /\ pcalls' = IF ptempl \in WholeTokens THEN NoCalls
                 ELSE GeneratorCalls(ptempl)
    /\ ppc' = "interface"
    /\ UNCHANGED <<ptempl, pindex>>
    /\ UNCHANGED <<dlvars, mapvars, evalvars, trvars, stvars, treevars, flvars,
                   alvars>>

TokNext == ResolveString \/ ResolveInterface

(***************************************************************************)
(* Saving and loading rules (model.go): json.MarshalIndent/Unmarshal,      *)
(* yaml.Marshal/Unmarshal and the bson encoding of the document store, by  *)
(* the struct tags of ExtractionRule and Transforms.  A Go slice is nil or *)
(* a list; a document is a function from the keys written to their values.*)
(***************************************************************************)
MaxStored == 2
NilSlice == [null |-> TRUE, items |-> <<>>]
Slice(items) == [null |-> FALSE, items |-> items]

\* The Go struct ExtractionRule, Children and Transforms being slices.
GoRule(name, selector, attr, multiple, visit, saveDir, children, tfs) ==
    [Name |-> name, Selector |-> selector, Attr |-> attr,
     Multiple |-> multiple, Download |-> saveDir # "", Visit |-> visit,
     Flatten |-> FALSE, SaveDir |-> saveDir, Children |-> children,
     Transforms |-> tfs]

\* The keys without omitempty are always written.
AlwaysKeys == {"name", "selector", "visit"}

\* omitempty: the key is written when the field is not its zero value, a
\* slice when its length is not 0.
OmitEmptyKeys(r) ==
    {k \in {"attr"} : r.Attr # ""}
      \cup {k \in {"multiple"} : r.Multiple}
      \cup {k \in {"download"} : r.Download}
      \cup {k \in {"flatten"} : r.Flatten}
      \cup {k \in {"save_dir"} : r.SaveDir # ""}
      \cup {k \in {"children"} : Len(r.Children.items) # 0}
      \cup {k \in {"transforms"} : Len(r.Transforms.items) # 0}

\* Transforms has json tags only; yaml and bson take the lower-cased field
\* name, the same three keys, none with omitempty.
EncTransform(t) == [match |-> t.Match, split |-> t.Split, replace |-> t.Replace]

DecTransform(d) == [Match |-> d.match, Split |-> d.split, Replace |-> d.replace]

EncTransforms(sl) == [i \in 1..Len(sl.items) |-> EncTransform(sl.items[i])]

DecTransforms(d) == Slice([i \in 1..Len(d) |-> DecTransform(d[i])])

RECURSIVE EncRule(_)

EncRules(items) == [i \in 1..Len(items) |-> EncRule(items[i])]

EncField(r, k) ==
    CASE k = "name" -> r.Name
      [] k = "selector" -> r.Selector
      [] k = "attr" -> r.Attr
      [] k = "multiple" -> r.Multiple
      [] k = "download" -> r.Download
      [] k = "visit" -> r.Visit
      [] k = "flatten" -> r.Flatten
      [] k = "save_dir" -> r.SaveDir
      [] k = "children" -> EncRules(r.Children.items)
      [] k = "transforms" -> EncTransforms(r.Transforms)

\* Marshal of one rule
EncRule(r) == [k \in AlwaysKeys \cup OmitEmptyKeys(r) |-> EncField(r, k)]

RECURSIVE DecRule(_)

DecRules(d) == Slice([i \in 1..Len(d) |-> DecRule(d[i])])

\* A key that is not in the document leaves the field at its zero value.
StrField(d, k) == IF k \in DOMAIN d THEN d[k] ELSE ""

BoolField(d, k) == IF k \in DOMAIN d THEN d[k] ELSE FALSE

ChildrenField(d) ==
    IF "children" \in DOMAIN d THEN DecRules(d["children"]) ELSE NilSlice

\* A decoder that does not know the key "transforms".
TransformsIgnored(d) == NilSlice

TransformsField(d) ==
    IF "transforms" \in DOMAIN d THEN DecTransforms(d["transforms"])
    ELSE NilSlice

\* Unmarshal of one rule into a new ExtractionRule
DecRule(d) ==
    [Name |-> StrField(d, "name"), Selector |-> StrField(d, "selector"),
     Attr |-> StrField(d, "attr"), Multiple |-> BoolField(d, "multiple"),
     Download |-> BoolField(d, "download"), Visit |-> BoolField(d, "visit"),
     Flatten |-> BoolField(d, "flatten"),
     SaveDir |-> StrField(d, "save_dir"), Children |-> ChildrenField(d),
     Transforms |-> TransformsField(d)]

\* The top-level value: json and bson write a nil slice as null, yaml
\* writes it as the empty sequence [].
NullDoc == [null |-> TRUE, items |-> <<>>]

EncTop(sl, codec) ==
    IF sl.null /\ codec # "yaml" THEN NullDoc
    ELSE [null |-> FALSE, items |-> EncRules(sl.items)]

\* Unmarshal into "var rules []*ExtractionRule": null leaves it nil, a
\* sequence makes a slice of its length.
DecTop(d) == IF d.null THEN NilSlice ELSE DecRules(d.items)

DefaultTransform == [Match |-> "^//", Split |-> FALSE, Replace |-> "https://"]

SplitTransform == [Match |-> ",", Split |-> TRUE, Replace |-> ""]

StoredLeaves ==
    {GoRule("a", "s1", attr, multiple, FALSE, "", NilSlice, tfs) :
       attr \in {"", "href"}, multiple \in BOOLEAN,
       tfs \in {NilSlice, Slice(<<>>), Slice(<<DefaultTransform>>),
                Slice(<<DefaultTransform, SplitTransform>>)}}
      \cup {GoRule("img", "img", "src", TRUE, FALSE, "dl", NilSlice, NilSlice)}

StoredParents ==
    {GoRule("b", "s2", "href", TRUE, TRUE, "", kids, NilSlice) :
       kids \in {Slice(<<>>)} \cup {Slice(<<l>>) : l \in
         {GoRule("a", "s1", "", FALSE, FALSE, "", NilSlice, tfs) :
            tfs \in {NilSlice, Slice(<<>>), Slice(<<SplitTransform>>)}}}}

StoredRules == StoredLeaves \cup StoredParents

StoredLists ==
    {NilSlice} \cup
    {Slice(l) : l \in UNION {[1..n -> StoredRules] : n \in 0..MaxStored}}

StoreInit ==
    /\ aheap = <<>> /\ aroot = 0 /\ aelems = 0 /\ produced = <<>>
    /\ touched = 0 /\ before = <<>> /\ apc = "idle"
    /\ fvals = <<>> /\ fflat = <<>> /\ fpc = "idle"
    /\ batches = <<>> /\ bconc = 0 /\ bctx = FALSE /\ bn = 0 /\ bpc = "idle"
    /\ bidx = 0 /\ bsem = <<>> /\ bwg = <<>> /\ gor = <<>> /\ ua = "nil"
    /\ extracted = Absent /\ stored = Absent /\ concurrency = 0
    /\ canceled = FALSE /\ pc = "idle" /\ urlResults = <<>>
    /\ downloadList = <<>> /\ permits = 0 /\ cur = 0 /\ wg = 0 /\ idx = 1
    /\ w = <<>> /\ res = <<>> /\ fs = NoFiles /\ cause = <<>> /\ order = <<>>
    /\ atCancel = {}
    /\ remappedData = <<>> /\ objMap = <<>> /\ mi = 0 /\ mst = "idle"
    /\ ret = Absent /\ last = Directive("", "", "", FALSE)
    /\ left = Directive("", "", "", FALSE)
    /\ branch = "none" /\ abandoned = FALSE /\ over = Absent
    /\ rules = <<>> /\ pageURL = "" /\ failing = {} /\ spc = "idle"
    /\ root = <<>> /\ ri = 0 /\ sret = Absent /\ serr = "nil"
    /\ fetchLog = {}
    /\ traw = Absent /\ tlist = <<>> /\ tpc = "idle"
    /\ tout = <<>> /\ tagain = <<>>
    /\ ptempl = "" /\ pindex = 0 /\ gen = <<>> /\ pcalls = <<>>
    /\ pout = <<>> /\ ppc = "idle"
    /\ saved \in StoredLists
    /\ stfile = <<>> /\ loaded = NilSlice /\ stpc = "start"

\* json.MarshalIndent(rules) written to the file
SaveRulesToJSON ==
    /\ stpc = "start"
    /\ stfile' = [codec |-> "json", doc |-> EncTop(saved, "json")]
    /\ stpc' = "saved"
    /\ UNCHANGED <<saved, loaded>>
    /\ UNCHANGED <<dlvars, mapvars, evalvars, trvars, phvars, treevars, flvars,
                   alvars>>

\* json.Unmarshal of the file into a nil rule slice
LoadRulesFromJSON ==
    /\ stpc = "saved" /\ stfile.codec = "json"
    /\ loaded' = DecTop(stfile.doc)
    /\ stpc' = "loaded"
    /\ UNCHANGED <<saved, stfile>>
    /\ UNCHANGED <<dlvars, mapvars, evalvars, trvars, phvars, treevars, flvars,
                   alvars>>

\* yaml.Marshal(rules) written to the file
SaveRulesToYAML ==
    /\ stpc = "start"
    /\ stfile' = [codec |-> "yaml", doc |-> EncTop(saved, "yaml")]
    /\ stpc' = "saved"
    /\ UNCHANGED <<saved, loaded>>
    /\ UNCHANGED <<dlvars, mapvars, evalvars, trvars, phvars, treevars, flvars,
                   alvars>>

\* yaml.Unmarshal of the file into a nil rule slice
LoadRulesFromYAML ==
    /\ stpc = "saved" /\ stfile.codec = "yaml"
    /\ loaded' = DecTop(stfile.doc)
    /\ stpc' = "loaded"
    /\ UNCHANGED <<saved, stfile>>
    /\ UNCHANGED <<dlvars, mapvars, evalvars, trvars, phvars, treevars, flvars,
                   alvars>>

\* the document {_id, rules, ts} upserted under the key
SaveRulesToMongo ==
    /\ stpc = "start"
    /\ stfile' = [codec |-> "bson", doc |-> EncTop(saved, "bson")]
    /\ stpc' = "saved"
    /\ UNCHANGED <<saved, loaded>>
    /\ UNCHANGED <<dlvars, mapvars, evalvars, trvars, phvars, treevars, flvars,
                   alvars>>

\* FindOne by key decoded into struct{Rules}
LoadRulesFromMongo ==
    /\ stpc = "saved" /\ stfile.codec = "bson"
    /\ loaded' = DecTop(stfile.doc)
    /\ stpc' = "loaded"
    /\ UNCHANGED <<saved, stfile>>
    /\ UNCHANGED <<dlvars, mapvars, evalvars, trvars, phvars, treevars, flvars,
                   alvars>>

StoreNext ==
    \/ SaveRulesToJSON \/ LoadRulesFromJSON
    \/ SaveRulesToYAML \/ LoadRulesFromYAML
    \/ SaveRulesToMongo \/ LoadRulesFromMongo

(***************************************************************************)
(* DownloadResults over a rule tree (lines 79-144).  The loop over the     *)
(* rules and the recursions into Children (lines 129, 139) run in the      *)
(* calling goroutine, so one call is a sequence of download batches, one   *)
(* for every Download-flagged rule the walk reaches with a Result; each    *)
(* batch makes its own semaphore and WaitGroup (lines 103-104).            *)
(***************************************************************************)
MaxBatches == 2
MaxFetches == 2
Slots == {<<b, i>> \in (1..Len(batches)) \X (1..MaxFetches) : i <= batches[b]}

\* The goroutines inside downloadResource.
Fetching == {g \in Slots : gor[g] \in {"fetch", "uanew", "http"}}

TreeInit ==
    /\ aheap = <<>> /\ aroot = 0 /\ aelems = 0 /\ produced = <<>>
    /\ touched = 0 /\ before = <<>> /\ apc = "idle"
    /\ fvals = <<>> /\ fflat = <<>> /\ fpc = "idle"
    /\ extracted = Absent /\ stored = Absent /\ concurrency = 0
    /\ canceled = FALSE /\ pc = "idle" /\ urlResults = <<>>
    /\ downloadList = <<>> /\ permits = 0 /\ cur = 0 /\ wg = 0 /\ idx = 1
    /\ w = <<>> /\ res = <<>> /\ fs = NoFiles /\ cause = <<>> /\ order = <<>>
    /\ atCancel = {}
    /\ remappedData = <<>> /\ objMap = <<>> /\ mi = 0 /\ mst = "idle"
    /\ ret = Absent /\ last = Directive("", "", "", FALSE)
    /\ left = Directive("", "", "", FALSE)
    /\ branch = "none" /\ abandoned = FALSE /\ over = Absent
    /\ rules = <<>> /\ pageURL = "" /\ failing = {} /\ spc = "idle"
    /\ root = <<>> /\ ri = 0 /\ sret = Absent /\ serr = "nil"
    /\ fetchLog = {}
    /\ traw = Absent /\ tlist = <<>> /\ tpc = "idle"
    /\ tout = <<>> /\ tagain = <<>>
    /\ ptempl = "" /\ pindex = 0 /\ gen = <<>> /\ pcalls = <<>>
    /\ pout = <<>> /\ ppc = "idle"
    /\ saved = <<>> /\ stfile = <<>> /\ loaded = <<>> /\ stpc = "idle"
    /\ batches \in UNION {[1..n -> 0..MaxFetches] : n \in 1..MaxBatches}
    /\ bconc \in 0..MaxConc
    /\ bctx = FALSE
    /\ bn = 1 /\ bpc = "start" /\ bidx = 1
    /\ bsem = [b \in 1..Len(batches) |-> 0]
    /\ bwg = [b \in 1..Len(batches) |-> 0]
    /\ gor = [g \in Slots |-> "none"]
    /\ ua \in {"nil", "set"}

\* lines 97-104: the URLs are read, the semaphore and the WaitGroup made
BatchStart ==
    /\ bpc = "start"
    /\ bidx' = 1
    /\ bpc' = IF batches[bn] = 0 THEN "wait" ELSE "add"
    /\ UNCHANGED <<batches, bconc, bctx, bn, bsem, bwg, gor, ua>>
    /\ UNCHANGED <<dlvars, mapvars, evalvars, trvars, phvars, stvars, flvars,
                   alvars>>

\* line 105: wg.Add(1)
BatchAdd ==
    /\ bpc = "add"
    /\ bwg' = [bwg EXCEPT ![bn] = @ + 1]
    /\ bpc' = "acquire"
    /\ UNCHANGED <<batches, bconc, bctx, bn, bidx, bsem, gor, ua>>
    /\ UNCHANGED <<dlvars, mapvars, evalvars, trvars, phvars, stvars, flvars,
                   alvars>>

AfterUrl == IF bidx = batches[bn] THEN "wait" ELSE "add"

\* lines 106-109: Acquire fails on a done ctx, continue
BatchAcquireErr ==
    /\ bpc = "acquire"
    /\ AcquireFails(bctx)
    /\ bidx' = bidx + 1
    /\ bpc' = AfterUrl
    /\ UNCHANGED <<batches, bconc, bctx, bn, bsem, bwg, gor, ua>>
    /\ UNCHANGED <<dlvars, mapvars, evalvars, trvars, phvars, stvars, flvars,
                   alvars>>

\* lines 106, 110: Acquire takes a permit of this batch's semaphore and
\* the goroutine is started
BatchDispatch ==
    /\ bpc = "acquire"
    /\ AcquireTakes(bctx, bsem[bn], Permits(bconc))
    /\ bsem' = [bsem EXCEPT ![bn] = @ + 1]
    /\ gor' = [gor EXCEPT ![<<bn, bidx>>] = "fetch"]
    /\ bidx' = bidx + 1
    /\ bpc' = AfterUrl
    /\ UNCHANGED <<batches, bconc, bctx, bn, bwg, ua>>
    /\ UNCHANGED <<dlvars, mapvars, evalvars, trvars, phvars, stvars, flvars,
                   alvars>>

\* downloadResource lines 308-325: it returns before the request, on a
\* URL that does not parse or a file that is already there
GoEarly(g) ==
    /\ gor[g] = "fetch"
    /\ gor' = [gor EXCEPT ![g] = "written"]
    /\ UNCHANGED <<batches, bconc, bctx, bn, bpc, bidx, bsem, bwg, ua>>
    /\ UNCHANGED <<dlvars, mapvars, evalvars, trvars, phvars, stvars, flvars,
                   alvars>>

\* downloadResource line 327: "if ua == nil" reads the package variable
GoReadUa(g) ==
    /\ gor[g] = "fetch"
    /\ gor' = [gor EXCEPT ![g] = IF ua = "nil" THEN "uanew" ELSE "http"]
    /\ UNCHANGED <<batches, bconc, bctx, bn, bpc, bidx, bsem, bwg, ua>>
    /\ UNCHANGED <<dlvars, mapvars, evalvars, trvars, phvars, stvars, flvars,
                   alvars>>

\* downloadResource lines 328-331: "ua, err = app.New()" writes it, with
\* nil when app.New fails
GoNewUa(g) ==
    /\ gor[g] = "uanew"
    /\ ua' \in {"set", "nil"}
    /\ gor' = [gor EXCEPT ![g] = "http"]
    /\ UNCHANGED <<batches, bconc, bctx, bn, bpc, bidx, bsem, bwg>>
    /\ UNCHANGED <<dlvars, mapvars, evalvars, trvars, phvars, stvars, flvars,
                   alvars>>

\* lines 335-369 and 113-114: the request ends, downloadResource returns
\* and the slot is written
GoFetched(g) ==
    /\ gor[g] = "http"
    /\ gor' = [gor EXCEPT ![g] = "written"]
    /\ UNCHANGED <<batches, bconc, bctx, bn, bpc, bidx, bsem, bwg, ua>>
    /\ UNCHANGED <<dlvars, mapvars, evalvars, trvars, phvars, stvars, flvars,
                   alvars>>

\* line 112: the deferred wg.Done() of the goroutine's own batch
GoDone(g) ==
    /\ gor[g] = "written"
    /\ bwg' = [bwg EXCEPT ![g[1]] = @ - 1]
    /\ gor' = [gor EXCEPT ![g] = "rel"]
    /\ UNCHANGED <<batches, bconc, bctx, bn, bpc, bidx, bsem, ua>>
    /\ UNCHANGED <<dlvars, mapvars, evalvars, trvars, phvars, stvars, flvars,
                   alvars>>

\* line 111: the deferred s.Release(1) on the goroutine's own semaphore
GoRelease(g) ==
    /\ gor[g] = "rel"
    /\ bsem' = [bsem EXCEPT ![g[1]] = @ - 1]
    /\ gor' = [gor EXCEPT ![g] = "exit"]
    /\ UNCHANGED <<batches, bconc, bctx, bn, bpc, bidx, bwg, ua>>
    /\ UNCHANGED <<dlvars, mapvars, evalvars, trvars, phvars, stvars, flvars,
                   alvars>>

\* line 118: wg.Wait() of this batch
BatchWait ==
    /\ bpc = "wait"
    /\ WaitPasses(bwg[bn])
    /\ bpc' = "store"
    /\ UNCHANGED <<batches, bconc, bctx, bn, bidx, bsem, bwg, gor, ua>>
    /\ UNCHANGED <<dlvars, mapvars, evalvars, trvars, phvars, stvars, flvars,
                   alvars>>

\* lines 119-143: the list is stored and the walk goes on to the next
\* batch, or the call returns
BatchStore ==
    /\ bpc = "store"
    /\ bn' = IF bn = Len(batches) THEN bn ELSE bn + 1
    /\ bpc' = IF bn = Len(batches) THEN "return" ELSE "start"
    /\ UNCHANGED <<batches, bconc, bctx, bidx, bsem, bwg, gor, ua>>
    /\ UNCHANGED <<dlvars, mapvars, evalvars, trvars, phvars, stvars, flvars,
                   alvars>>

\* the caller cancels ctx
CtxCancel ==
    /\ ~bctx
    /\ bpc # "return"
    /\ bctx' = TRUE
    /\ UNCHANGED <<batches, bconc, bn, bpc, bidx, bsem, bwg, gor, ua>>
    /\ UNCHANGED <<dlvars, mapvars, evalvars, trvars, phvars, stvars, flvars,
                   alvars>>

TreeNext ==
    \/ BatchStart
    \/ BatchAdd
    \/ BatchAcquireErr
    \/ BatchDispatch
    \/ \E g \in Slots : GoEarly(g)
    \/ \E g \in Slots : GoReadUa(g)
    \/ \E g \in Slots : GoNewUa(g)
    \/ \E g \in Slots : GoFetched(g)
    \/ \E g \in Slots : GoDone(g)
    \/ \E g \in Slots : GoRelease(g)
    \/ BatchWait
    \/ BatchStore
    \/ CtxCancel

(***************************************************************************)
(* flattenList on lists of scalars and lists, nested up to MaxNest deep.   *)
(***************************************************************************)
MaxNest == 2

FlatLists ==
    {<<>>, <<Str("a")>>, <<Str("a"), Str("b")>>, <<Str("b"), Str("a")>>,
     <<Str("a"), Nil>>, <<Arr(<<>>)>>}

\* Lists that hold the list l as an element, alone, after or before a
\* scalar, and after l's own elements.
NestOf(l) ==
    {<<Arr(l)>>, <<Str("x"), Arr(l)>>, <<Arr(l), Str("y")>>, l \o <<Arr(l)>>}

RECURSIVE NestedLists(_)
NestedLists(n) ==
    IF n = 0 THEN FlatLists
    ELSE UNION {NestOf(l) : l \in NestedLists(n - 1)}

FlattenInputs == UNION {NestedLists(n) : n \in 0..MaxNest}

FlattenInit ==
    /\ aheap = <<>> /\ aroot = 0 /\ aelems = 0 /\ produced = <<>>
    /\ touched = 0 /\ before = <<>> /\ apc = "idle"
    /\ extracted = Absent /\ stored = Absent /\ concurrency = 0
    /\ canceled = FALSE /\ pc = "idle" /\ urlResults = <<>>
    /\ downloadList = <<>> /\ permits = 0 /\ cur = 0 /\ wg = 0 /\ idx = 1
    /\ w = <<>> /\ res = <<>> /\ fs = NoFiles /\ cause = <<>> /\ order = <<>>
    /\ atCancel = {}
    /\ remappedData = <<>> /\ objMap = <<>> /\ mi = 0 /\ mst = "idle"
    /\ ret = Absent /\ last = Directive("", "", "", FALSE)
    /\ left = Directive("", "", "", FALSE)
    /\ branch = "none" /\ abandoned = FALSE /\ over = Absent
    /\ rules = <<>> /\ pageURL = "" /\ failing = {} /\ spc = "idle"
    /\ root = <<>> /\ ri = 0 /\ sret = Absent /\ serr = "nil"
    /\ fetchLog = {}
    /\ traw = Absent /\ tlist = <<>> /\ tpc = "idle"
    /\ tout = <<>> /\ tagain = <<>>
    /\ ptempl = "" /\ pindex = 0 /\ gen = <<>> /\ pcalls = <<>>
    /\ pout = <<>> /\ ppc = "idle"
    /\ saved = <<>> /\ stfile = <<>> /\ loaded = <<>> /\ stpc = "idle"
    /\ batches = <<>> /\ bconc = 0 /\ bctx = FALSE /\ bn = 0 /\ bpc = "idle"
    /\ bidx = 0 /\ bsem = <<>> /\ bwg = <<>> /\ gor = <<>> /\ ua = "nil"
    /\ fvals \in FlattenInputs
    /\ fflat = <<>> /\ fpc = "start"

\* vals = flattenList(vals)
Flatten ==
    /\ fpc = "start"
    /\ fflat' = flattenList(fvals)
    /\ fpc' = "done"
    /\ UNCHANGED fvals
    /\ UNCHANGED <<dlvars, mapvars, evalvars, trvars, phvars, stvars, treevars,
                   alvars>>

FlattenNext == Flatten

(***************************************************************************)
(* deepCopy, deepCopyMap and deepCopySlice on Go values with identity: a   *)
(* map[string]interface{}, a []interface{} or a slice of another type     *)
(* ([]string) is a cell of the heap, and a value is a scalar or a          *)
(* reference to a cell.  A copy allocates new cells at the end of the heap.*)
(***************************************************************************)
MaxElems == 3

Ref(a) == [k |-> "ref", v |-> a]

Cell(kind, content) == [k |-> kind, v |-> content]

RECURSIVE heapCopy(_, _, _)

\* newMap[k] = deepCopy(v, index), st being the heap and the map so far
PutEntry(st, key, c) == [h |-> c.h, acc |-> Put(st.acc, key, c.r)]

RECURSIVE CopyKeys(_, _, _, _)

CopyKeysNext(m, keys, index, st, key) ==
    CopyKeys(m, keys \ {key}, index,
             PutEntry(st, key, heapCopy(st.h, m[key], index)))

\* deepCopyMap lines 216-218: the loop over the keys of m
CopyKeys(m, keys, index, st) ==
    IF keys = {} THEN st
    ELSE CopyKeysNext(m, keys, index, st, CHOOSE key \in keys : TRUE)

\* newSlice[i] = deepCopy(v, i)
PutElement(st, c) == [h |-> c.h, acc |-> Append(st.acc, c.r)]

\* deepCopySlice lines 227-229: the loop over the elements, the position
\* of the element being the index of its placeholders
RECURSIVE CopyElements(_, _, _)
CopyElements(sl, i, st) ==
    IF i > Len(sl) THEN st
    ELSE CopyElements(sl, i + 1, PutElement(st, heapCopy(st.h, sl[i], i - 1)))

\* make(...): the new map or slice is a new cell
Alloc(st, kind) ==
    [h |-> Append(st.h, Cell(kind, st.acc)), r |-> Ref(Len(st.h) + 1)]

\* deepCopyMap
heapCopyMap(h, m, index) ==
    Alloc(CopyKeys(m, DOMAIN m, index, [h |-> h, acc |-> <<>>]), "map")

\* deepCopySlice
heapCopySlice(h, sl) ==
    Alloc(CopyElements(sl, 1, [h |-> h, acc |-> <<>>]), "arr")

\* The default branch for a value that is neither map[string]interface{}
\* nor []interface{}: replacePlaceholdersInterface gives back raw itself
\* when safeString(raw) is "", as it is for every slice or map of another
\* type.
SameReference(h, x) == [h |-> h, r |-> x]

\* case []interface{}: return deepCopySlice(v)
SliceCase(h, x) == heapCopySlice(h, h[x.v].v)

\* deepCopy: the type switch of lines 201-208
heapCopy(h, x, index) ==
    IF x.k # "ref" THEN [h |-> h, r |-> replacePlaceholdersInterface(x, index)]
    ELSE IF h[x.v].k = "map" THEN heapCopyMap(h, h[x.v].v, index)
    ELSE IF h[x.v].k = "arr" THEN SliceCase(h, x)
    ELSE SameReference(h, x)

\* What a value holds, every reference followed.
RECURSIVE Deref(_, _)
Deref(h, x) ==
    IF x.k # "ref" THEN x
    ELSE IF h[x.v].k = "map"
         THEN Map([key \in DOMAIN h[x.v].v |-> Deref(h, h[x.v].v[key])])
    ELSE IF h[x.v].k = "arr"
         THEN Arr([i \in 1..Len(h[x.v].v) |-> Deref(h, h[x.v].v[i])])
    ELSE Strs(h[x.v].v)

\* Format templates: the heap that holds one and the address of its map.
FormatTemplates ==
    { [h |-> <<Cell("map", [id |-> Str("{{index}}")]),
               Cell("map", [meta |-> Ref(1), kind |-> Str("row")])>>,
       root |-> 2],
      [h |-> <<Cell("arr", <<Str("{{index}}"), Str("x")>>),
               Cell("map", [tags |-> Ref(1)])>>,
       root |-> 2],
      [h |-> <<Cell("strs", <<"a", "b">>),
               Cell("map", [names |-> Ref(1)])>>,
       root |-> 2],
      [h |-> <<Cell("arr", <<Str("p")>>),
               Cell("map", [list |-> Ref(1)]),
               Cell("map", [meta |-> Ref(2), n |-> Str("{{index+1}}")])>>,
       root |-> 3],
      [h |-> <<Cell("map", [pos |-> Str("{{index}}")]),
               Cell("arr", <<Ref(1), Str("{{index}}")>>),
               Cell("map", [rows |-> Ref(2)])>>,
       root |-> 3] }

AliasInit ==
    /\ extracted = Absent /\ stored = Absent /\ concurrency = 0
    /\ canceled = FALSE /\ pc = "idle" /\ urlResults = <<>>
    /\ downloadList = <<>> /\ permits = 0 /\ cur = 0 /\ wg = 0 /\ idx = 1
    /\ w = <<>> /\ res = <<>> /\ fs = NoFiles /\ cause = <<>> /\ order = <<>>
    /\ atCancel = {}
    /\ remappedData = <<>> /\ objMap = <<>> /\ mi = 0 /\ mst = "idle"
    /\ ret = Absent /\ last = Directive("", "", "", FALSE)
    /\ left = Directive("", "", "", FALSE)
    /\ branch = "none" /\ abandoned = FALSE /\ over = Absent
    /\ rules = <<>> /\ pageURL = "" /\ failing = {} /\ spc = "idle"
    /\ root = <<>> /\ ri = 0 /\ sret = Absent /\ serr = "nil"
    /\ fetchLog = {}
    /\ traw = Absent /\ tlist = <<>> /\ tpc = "idle"
    /\ tout = <<>> /\ tagain = <<>>
    /\ ptempl = "" /\ pindex = 0 /\ gen = <<>> /\ pcalls = <<>>
    /\ pout = <<>> /\ ppc = "idle"
    /\ saved = <<>> /\ stfile = <<>> /\ loaded = <<>> /\ stpc = "idle"
    /\ batches = <<>> /\ bconc = 0 /\ bctx = FALSE /\ bn = 0 /\ bpc = "idle"
    /\ bidx = 0 /\ bsem = <<>> /\ bwg = <<>> /\ gor = <<>> /\ ua = "nil"
    /\ fvals = <<>> /\ fflat = <<>> /\ fpc = "idle"
    /\ \E t \in FormatTemplates : aheap = t.h /\ aroot = t.root
    /\ aelems \in 1..MaxElems
    /\ produced = <<>>
    /\ touched = 0 /\ before = <<>>
    /\ apc = "copy"

\* remappedObj after lines 172-190: a new map that holds the entries of
\* formatCopy
Merged(c) == Alloc([h |-> c.h, acc |-> c.h[c.r.v].v], "map")

\* remapSingleObject for the next element of the array: formatCopy :=
\* deepCopyMap(rule.Format, index), merged into remappedObj
ProduceObject ==
    /\ apc = "copy"
    /\ LET c == Merged(heapCopyMap(aheap, aheap[aroot].v, Len(produced)))
       IN  /\ aheap' = c.h
           /\ produced' = Append(produced, c.r.v)
    /\ apc' = IF Len(produced') = aelems THEN "use" ELSE "copy"
    /\ UNCHANGED <<aroot, aelems, touched, before>>
    /\ UNCHANGED <<dlvars, mapvars, evalvars, trvars, phvars, stvars,
                   treevars, flvars>>

RECURSIVE Inside(_, _)

\* The cell of value x and the maps and slices inside it.
Below(h, x) == IF x.k # "ref" THEN {} ELSE {x.v} \cup Inside(h, x)

\* The maps and slices inside value x, x's own cell left out.
Inside(h, x) ==
    IF x.k # "ref" THEN {}
    ELSE IF h[x.v].k = "map"
         THEN UNION {Below(h, h[x.v].v[key]) : key \in DOMAIN h[x.v].v}
    ELSE IF h[x.v].k = "arr"
         THEN UNION {Below(h, h[x.v].v[i]) : i \in 1..Len(h[x.v].v)}
    ELSE {}

Snapshot ==
    [t |-> Deref(aheap, Ref(aroot)),
     o |-> [n \in 1..Len(produced) |-> Deref(aheap, Ref(produced[n]))]]

\* The caller of the remapper changes the map or slice at address a: a
\* new key in a map, a new first element in a slice.
Written(cell, new) ==
    IF cell.k = "map" THEN Cell("map", Put(cell.v, "changed", Str(new)))
    ELSE IF cell.k = "arr" THEN Cell("arr", <<Str(new)>> \o Tail(cell.v))
    ELSE Cell(cell.k, <<new>> \o Tail(cell.v))

\* A map takes a new key, a slice a new element where it has one.
Writable(cell) == IF cell.k = "map" THEN TRUE ELSE Len(cell.v) > 0

\* The caller writes into a map or slice nested in the object of element n.
WriteNested(n) ==
    /\ apc = "use"
    /\ \E a \in Inside(aheap, Ref(produced[n])) :
         /\ Writable(aheap[a])
         /\ \E new \in {"new", "other"} :
              aheap' = [aheap EXCEPT ![a] = Written(aheap[a], new)]
    /\ touched' = n
    /\ before' = Snapshot
    /\ apc' = "written"
    /\ UNCHANGED <<aroot, aelems, produced>>
    /\ UNCHANGED <<dlvars, mapvars, evalvars, trvars, phvars, stvars,
                   treevars, flvars>>

AliasNext ==
    \/ ProduceObject
    \/ \E n \in 1..Len(produced) : WriteNested(n)

SpecDL == DLInit /\ [][DLNext]_vars

SpecMap == MapInit /\ [][MapNext]_vars

SpecEval == EvalInit /\ [][EvalNext]_vars

SpecTransform == TrInit /\ [][TrNext]_vars

SpecTokens == TokInit /\ [][TokNext]_vars

SpecStore == StoreInit /\ [][StoreNext]_vars

SpecFlatten == FlattenInit /\ [][FlattenNext]_vars

SpecAlias == AliasInit /\ [][AliasNext]_vars

\* The steps of the call and of its goroutines: the Go scheduler runs a
\* goroutine that can take a step.
TreeProgram ==
    \/ BatchStart \/ BatchAdd \/ BatchAcquireErr \/ BatchDispatch
    \/ \E g \in Slots : GoEarly(g) \/ GoReadUa(g) \/ GoNewUa(g)
    \/ \E g \in Slots : GoFetched(g) \/ GoDone(g) \/ GoRelease(g)
    \/ BatchWait \/ BatchStore

SpecTree == TreeInit /\ [][TreeNext]_vars /\ WF_vars(TreeProgram)

(***************************************************************************)
(* Claims about the download batch (SpecDL).                               *)
(***************************************************************************)
\* The extracted value seen as a list, a lone string being a list of one.
ExtractedEntries ==
    CASE extracted.k = "arr" -> AllStrings(extracted.v)
      [] extracted.k = "strs" -> extracted.v
      [] extracted.k = "str" -> <<extracted.v>>
      [] OTHER -> <<>>

IsUrlList ==
    /\ extracted.k \in {"arr", "strs"}
    /\ \A i \in 1..Len(ExtractedEntries) : ExtractedEntries[i] # ""

Fetched(i) == cause[i] \in {"ok", "cached"}

\* C1: for an extracted list of N URLs, once DownloadResults has returned,
\* the array stored at rule.Name has N elements and its i-th element is the
\* local path of the i-th URL, or "" exactly when that fetch failed,
\* whatever the concurrency and the order in which the workers ended.
C1_SlotOrder ==
    (pc = "done" /\ IsUrlList) =>
        /\ stored.k = "strs"
        /\ Len(stored.v) = Len(ExtractedEntries)
        /\ \A i \in 1..Len(ExtractedEntries) :
              /\ Fetched(i) => stored.v[i] = OutPath(ExtractedEntries[i])
              /\ ~Fetched(i) => stored.v[i] = ""

\* C1 witness: three URLs, two permits, the second fetch failed alone and the
\* workers ended out of input order.
C1_Witness ==
    /\ pc = "done" /\ IsUrlList
    /\ Len(urlResults) = 3 /\ permits = 2
    /\ cause[2] = "server" /\ cause[1] = "ok" /\ cause[3] \in {"ok", "cached"}
    /\ stored.v = <<"dl/a.png", "", "dl/a.png">>
    /\ order[1] = 2

\* C2: while a batch runs, the fetches started and not yet finished number at
\* most concurrency, a concurrency below 1 counting as 1.
C2_BoundedInFlight ==
    Cardinality(InFlight) <= (IF concurrency < 1 THEN 1 ELSE concurrency)

\* C2 witness: two fetches in flight together under two permits while a
\* third URL waits for a permit.
C2_Witness ==
    /\ concurrency = 2 /\ Cardinality(InFlight) = 2
    /\ pc = "acquire" /\ idx = 3

C4_Original ==
    [][/\ canceled => Dispatched' \subseteq Dispatched
       /\ \A i \in atCancel' : cause'[i] # "ctx"]_vars

\* C4 (amended): after a cancellation no fetch is dispatched; a fetch in
\* flight at the cancellation still returns to its worker, which writes its
\* own slot: the local path if the transfer ended well or the file was on
\* disk, "" if the transfer failed or was aborted by the canceled context.
C4_CancelStopsDispatch ==
    [][/\ canceled => Dispatched' \subseteq Dispatched
       /\ \A i \in atCancel' :
            w'[i] \in {"written", "rel", "exit"} =>
               downloadList'[i] =
                  IF cause'[i] \in {"ok", "cached"}
                  THEN OutPath(urlResults'[i]) ELSE ""]_vars

\* C4 witness: canceled with a fetch in flight, which the context aborted,
\* and a later URL that was never dispatched.
C4_Witness ==
    /\ canceled
    /\ \E i \in atCancel : cause[i] = "ctx" /\ w[i] = "exit"
    /\ \E j \in Workers : w[j] = "none" /\ j < idx

NonEmptyCount ==
    IF extracted.k = "arr"
    THEN Cardinality({i \in 1..Len(extracted.v) :
                        extracted.v[i].k = "str" /\ extracted.v[i].v # ""})
    ELSE Len(ExtractedEntries)

\* C5 (as claimed): the array that replaces r[rule.Name] has as many
\* elements as the extracted array (a lone string being an array of one).
C5_Original ==
    (pc = "done" /\ extracted.k \in {"arr", "strs", "str"}) =>
        Len(stored.v) = Len(ExtractedEntries)

\* C5 (amended): the array that replaces r[rule.Name] has one element per
\* non-empty entry of the extracted array; empty entries are skipped.
C5_OneSlotPerNonEmptyEntry ==
    (pc = "done" /\ extracted.k \in {"arr", "strs", "str"}) =>
        /\ stored.k = "strs"
        /\ Len(stored.v) = NonEmptyCount

\* C5 witness: an extracted array with an empty entry among URLs.
C5_Witness ==
    /\ pc = "done" /\ extracted.k = "arr" /\ Len(extracted.v) = 3
    /\ extracted.v[2].v = "" /\ Len(stored.v) = 2

(***************************************************************************)
(* Claims about the path remapper (SpecMap).                               *)
(***************************************************************************)
\* locate: the value at a path of keys in a map, Absent if there is none.
RECURSIVE Locate(_, _)
Locate(m, keys) ==
    IF keys[1] \notin DOMAIN m THEN Absent
    ELSE IF Len(keys) = 1 THEN m[keys[1]]
    ELSE IF m[keys[1]].k = "map" THEN Locate(m[keys[1]].v, Tail(keys))
    ELSE Absent

\* Every segment of the path before the last is absent or a map.
RECURSIVE Walkable(_, _)
Walkable(m, keys) ==
    \/ Len(keys) = 1
    \/ keys[1] \notin DOMAIN m
    \/ /\ m[keys[1]].k = "map"
       /\ Walkable(m[keys[1]].v, Tail(keys))

\* The names of all keys of a map and of the maps nested in it.
RECURSIVE AllKeys(_)
AllKeys(m) ==
    DOMAIN m \cup
      UNION {AllKeys(m[x].v) : x \in {y \in DOMAIN m : m[y].k = "map"}}

\* The key paths of a map and of the maps nested in it.
RECURSIVE AllPaths(_)
AllPaths(m) ==
    {<<x>> : x \in DOMAIN m} \cup
      UNION {{<<x>> \o q : q \in AllPaths(m[x].v)} :
               x \in {y \in DOMAIN m : m[y].k = "map"}}

HasBracket(key) == \E i \in 1..Len(key) : Char(key, i) \in {"[", "]"}
Front(keys) == SubSeq(keys, 1, Len(keys) - 1)
LastKey(keys) == keys[Len(keys)]
IsPrefix(p, q) == Len(p) <= Len(q) /\ SubSeq(q, 1, Len(p)) = p

\* The last iteration assigned an array to a shared-root path whose last
\* segment carries a bracketed index.
IndexedStep ==
    /\ mi' = mi + 1
    /\ last'.Object = ""
    /\ ValueOf(last').k = "arr"
    /\ extractNumberFromBrackets(LastKey(Split(last'.To))) # -1

LastIndex == extractNumberFromBrackets(LastKey(Split(last'.To)))
\* The destination with the brackets of its last segment removed.
Unbracketed ==
    Append(Front(Split(last'.To)), ReplaceAllBrackets(LastKey(Split(last'.To))))

\* C6 (as claimed): assigning an array of length n to a path whose last
\* segment carries an index i >= n stores the whole array under the last
\* segment's name without the brackets and never panics.
C6_OutOfRangeStoresWhole ==
    [][(/\ IndexedStep
        /\ LastIndex >= Len(ValueOf(last').v)
        /\ Walkable(remappedData, Split(last'.To)))
          => /\ mst' # "panic"
             /\ Locate(remappedData', Unbracketed) = ValueOf(last')]_vars

\* C7 (as claimed): assigning an array of length n to a path whose last
\* segment carries an index i < n stores element i under the last segment's
\* name without the brackets and creates no key with brackets in its name.
C7_Original ==
    [][(IndexedStep /\ LastIndex < Len(ValueOf(last').v))
          => /\ Locate(remappedData', Unbracketed)
                  = ValueOf(last').v[LastIndex + 1]
             /\ \A x \in AllKeys(remappedData') \ AllKeys(remappedData) :
                  ~HasBracket(x)]_vars

\* C7 (amended): when every earlier segment of the path is absent or a map,
\* assigning an array of length n to a path whose last segment is name[i]
\* with i < n stores element i under name, a key without brackets; the only
\* keys with brackets it creates are earlier segments of the path, which are
\* used as keys as they are written.
C7_InRangeStoresElement ==
    [][(/\ IndexedStep
        /\ LastIndex < Len(ValueOf(last').v)
        /\ Walkable(remappedData, Split(last'.To)))
          => /\ mst' = "run"
             /\ Locate(remappedData', Unbracketed)
                  = ValueOf(last').v[LastIndex + 1]
             /\ ~HasBracket(LastKey(Unbracketed))
             /\ \A x \in AllKeys(remappedData') \ AllKeys(remappedData) :
                  HasBracket(x) => x \in Range(Front(Split(last'.To)))]_vars

\* C7 witness: a.b[1] assigned from [x, y, z] left y at a.b.
C7_Witness ==
    /\ branch = "elem" /\ last.To = "a.b[1]"
    /\ Locate(remappedData, <<"a", "b">>) = Str("y")

\* C8 (as claimed): a directive with an Object leaves the shared root as it
\* was, and what MapResultsResults returns holds, under that name, the
\* bucket with the value at path To.
C8_BucketReturned ==
    [][/\ (mi' = mi + 1 /\ last'.Object # "")
            => remappedData' = remappedData
       /\ mst' = "done"
            => \A o \in DOMAIN objMap' :
                  /\ ret'.k = "map"
                  /\ o \in DOMAIN ret'.v
                  /\ ret'.v[o] = Map(objMap'[o])]_vars

\* The map the last iteration wrote into, before and after it.
TargetBefore ==
    IF last'.Object = "" THEN remappedData
    ELSE IF last'.Object \in DOMAIN objMap THEN objMap[last'.Object] ELSE <<>>

\* C9: a directive whose path passes through a key holding a value that is
\* not a map is abandoned alone: the shared root and the buckets are left as
\* they were, nothing fails, and the loop goes on to the next directive.
C9_BlockedAbandonsOne ==
    [][(mi' = mi + 1 /\ ~Walkable(TargetBefore, Split(last'.To)))
          => /\ remappedData' = remappedData
             /\ objMap' = objMap
             /\ mst' = "run"]_vars

\* C9 witness: a was set, a.b.c was abandoned on it, and c, after it, was
\* set and returned together with a.
C9_Witness ==
    /\ mst = "done" /\ abandoned /\ mi = 3
    /\ last.To = "c" /\ branch = "set"
    /\ ret.v = [a |-> Str("v"), c |-> Str("v")]

\* C10: assigning v at a path p without brackets, in a root where every
\* segment of p before the last is absent or a map, makes locate(p) return
\* v; the levels on the way are maps, and no path beside p changes.
C10_AssignThenLocate ==
    [][(/\ mi' = mi + 1
        /\ last'.Object = ""
        /\ ~HasBracket(last'.To)
        /\ Walkable(remappedData, Split(last'.To)))
          => LET p == Split(last'.To)
             IN  /\ mst' = "run"
                 /\ Locate(remappedData', p) = ValueOf(last')
                 /\ \A j \in 1..(Len(p) - 1) :
                      Locate(remappedData', SubSeq(p, 1, j)).k = "map"
                 /\ \A q \in AllPaths(remappedData) \cup AllPaths(remappedData') :
                      (~IsPrefix(q, p) /\ ~IsPrefix(p, q))
                         => Locate(remappedData', q) = Locate(remappedData, q)]_vars

\* C10 witness: a.b.c was assigned into a root that held a map at a with
\* another key, which is still there.
C10_Witness ==
    /\ last.To = "a.b.c" /\ branch = "set"
    /\ Locate(remappedData, <<"a", "b", "c">>) = Str("v")
    /\ Locate(remappedData, <<"a", "k">>) = Str("w")

\* The map the last iteration wrote into, after it.
TargetAfter ==
    IF last'.Object = "" THEN remappedData'
    ELSE IF last'.Object \in DOMAIN objMap' THEN objMap'[last'.Object] ELSE <<>>

\* What the last iteration assigned at its leaf: element n of an array
\* whose path ends in [n], the value itself otherwise.
WrittenValue ==
    LET n == extractNumberFromBrackets(LastKey(Split(last'.To)))
        v == ValueOf(last')
    IN  IF v.k = "arr" /\ n # -1 /\ n < Len(v.v) THEN v.v[n + 1] ELSE v

\* C11: when a directive writes to a leaf path that an earlier directive of
\* the list has written (the map it writes into starts empty, so whatever
\* the leaf holds came from an earlier directive), the leaf holds the later
\* directive's value afterwards, and the returned root is the root the
\* directives left.
C11_LaterDirectiveWins ==
    [][/\ (/\ mi' = mi + 1
           /\ branch' \notin {"blocked", "panic"}
           /\ LeafAt(TargetBefore, DestKeys(last')) # Absent)
            => LeafAt(TargetAfter, DestKeys(last')) = WrittenValue
       /\ mst' = "done" => ret' = Map(remappedData)]_vars

\* C11 witness: a held "v" from an earlier directive, a later directive
\* wrote the object at a, and the returned root holds the object there.
C11_Witness ==
    /\ mst = "done" /\ last = Directive("", "obj", "a", FALSE)
    /\ over = Str("v")
    /\ LeafAt(ret.v, <<"a">>) = Map([k |-> Str("w")])

\* What a nested directive reads in one element: the element itself for
\* the keys "" and ".", else the value at the key's path.
ReadIn(elem, key) ==
    IF NormalizeKey(key) \in {"", "."} THEN elem
    ELSE PathGet(elem, Split(NormalizeKey(key)))

\* o is the object the nested list makes of element elem at position
\* index: every nested directive whose Key exists in the element put the
\* value found there at its To, every Format key holds its template with
\* the position filled in, and o has no other top-level key.
IsNestedObject(o, elem, nested, index) ==
    /\ o.k = "map"
    /\ \A j \in 1..Len(nested) :
         /\ ReadIn(elem, nested[j].Key) # Absent
              => LeafAt(o.v, Split(nested[j].To)) = ReadIn(elem, nested[j].Key)
         /\ \A x \in DOMAIN nested[j].Format :
              /\ x \in DOMAIN o.v
              /\ o.v[x] = deepCopy(nested[j].Format[x], index)
    /\ \A x \in DOMAIN o.v :
         \E j \in 1..Len(nested) :
            \/ x \in DOMAIN nested[j].Format
            \/ /\ ReadIn(elem, nested[j].Key) # Absent
               /\ x = Split(nested[j].To)[1]

\* C12: a directive with IsArray or ArrayObjMap whose Key locates an array
\* hands to the assignment an array with one entry per element, in the
\* same order: the element itself without ArrayObjMap, else the object the
\* nested list makes of that element; a To without a bracketed index whose
\* earlier segments are absent or maps holds that array afterwards.
C12_OneEntryPerElement ==
    [][(/\ mi' = mi + 1
        /\ (last'.IsArray \/ Len(last'.ArrayObjMap) > 0)
        /\ gjsonGet(SourceResult, last'.Key).k = "arr")
          => LET src == gjsonGet(SourceResult, last'.Key).v
                 out == ValueOf(last')
                 nested == last'.ArrayObjMap
             IN  /\ out.k = "arr"
                 /\ Len(out.v) = Len(src)
                 /\ \A i \in 1..Len(src) :
                      IF Len(nested) = 0 THEN out.v[i] = src[i]
                      ELSE IsNestedObject(out.v[i], src[i], nested, i - 1)
                 /\ (/\ ~HasBracket(LastKey(Split(last'.To)))
                     /\ Walkable(TargetBefore, Split(last'.To)))
                       => /\ mst' = "run"
                          /\ LeafAt(TargetAfter, Split(last'.To)) = out]_vars

\* C12 witness: rows was remapped through its nested list into out, one
\* object per row in order, the second row without tags having no first.
C12_Witness ==
    /\ Len(last.ArrayObjMap) = 2 /\ branch = "set"
    /\ LeafAt(remappedData, <<"out">>) =
         Arr(<<Map([x |-> Map([id |-> Str("1")]), first |-> Str("p"),
                    pos |-> IntVal(0)]),
               Map([x |-> Map([id |-> Str("2")]), pos |-> IntVal(1)])>>)

(***************************************************************************)
(* Claims about the rule evaluator (SpecEval).                             *)
(***************************************************************************)
\* Scrape has returned and neither the page fetch nor url.Parse failed.
Ran == spc = "done" /\ FetchOk(pageURL, failing) /\ ~ParseFails(pageURL)

\* No later root rule has the name of root rule i.
LastOfName(i) == \A j \in (i + 1)..Len(rules) : rules[j].Name # rules[i].Name

\* What Scrape returned under the name of root rule i.
Returned(i) == sret.v[rules[i].Name]

\* The elements root rule i matches in the page.
Matched(i) == Find(DocSelection(pageURL), rules[i].Selector)

IsLeaf(rule) == Len(rule.Children) = 0

\* The root rules whose value is in the returned Result.
Settled == {i \in 1..Len(rules) : LastOfName(i)}

\* C13 (as claimed): a leaf rule with Multiple=false yields a scalar string,
\* not an array; in the records of a Multiple rule with the children title
\* and tags, title is a string and tags is an array.
C13_SingleLeafIsScalar ==
    Ran => \A i \in Settled :
             /\ (IsLeaf(rules[i]) /\ ~rules[i].Multiple)
                  => Returned(i).k = "str"
             /\ (~IsLeaf(rules[i]) /\ rules[i].Multiple /\ ~rules[i].Visit)
                  => \A n \in 1..Len(Returned(i).v) :
                        /\ Returned(i).v[n].v["title"].k = "str"
                        /\ Returned(i).v[n].v["tags"].k = "arr"

\* C14 (as claimed): a leaf rule with Multiple=false whose selector matches
\* nothing yields the empty string, and Scrape returns no error.
C14_ZeroMatchIsEmptyString ==
    Ran => /\ serr = "nil"
           /\ \A i \in Settled :
                (/\ IsLeaf(rules[i]) /\ ~rules[i].Multiple
                 /\ Len(Matched(i)) = 0)
                   => Returned(i) = Str("")

\* C15 (as claimed): for every Multiple rule and every transform list the
\* array has as many elements as the selector matched.
C15_Original ==
    Ran => \A i \in Settled :
             rules[i].Multiple
               => /\ Returned(i).k = "arr"
                  /\ Len(Returned(i).v) = Len(Matched(i))

\* The rule has a Split transform whose pattern compiles.
HasSplit(rule) ==
    \E j \in 1..Len(rule.Transforms) :
       rule.Transforms[j].Split /\ ~Compile(rule.Transforms[j].Match).err

\* C15 (amended): without a Split transform, the array of a Multiple rule
\* has one element per matched element, in document order (none for no
\* match): the match's text or attribute for a leaf rule, its record for a
\* rule with Children.  With a Split transform every match contributes its
\* non-empty fragments, so the array is at least as long as the matches.
C15_OnePerMatchWithoutSplit ==
    Ran => \A i \in Settled :
             rules[i].Multiple
               => LET out == Returned(i)
                      m == Matched(i)
                  IN  /\ out.k = "arr"
                      /\ Len(out.v) >= Len(m)
                      /\ ~HasSplit(rules[i]) =>
                           /\ Len(out.v) = Len(m)
                           /\ \A n \in 1..Len(m) :
                                IF IsLeaf(rules[i])
                                THEN out.v[n] =
                                       LeafValue(rules[i], m[n],
                                                 AttrOf(m[n], rules[i].Attr))
                                ELSE /\ out.v[n].k = "map"
                                     /\ ~rules[i].Visit =>
                                          out.v[n].v["title"] =
                                            Arr(<<Str(TrimSpace(TextOf(
                                              First(Find(m[n], "title")))))>>)

\* C15 witness: the two items gave two records in document order, and the
\* leaf rule after it the two titles.
C15_Witness ==
    /\ Ran /\ Len(rules) = 2 /\ rules[1].Name = "books"
    /\ rules[1].Multiple /\ ~rules[1].Visit /\ rules[1].Attr = ""
    /\ Len(sret.v["books"].v) = 2
    /\ sret.v["books"].v[2].v["title"] = Arr(<<Str("Book 2")>>)
    /\ sret.v["g"] = Arr(<<Str("Book 1"), Str("Book 2")>>)

\* The record of match n of root rule i: the value itself for a rule that
\* is not Multiple.
RecordAt(i, n) == IF rules[i].Multiple THEN Returned(i).v[n] ELSE Returned(i)

\* The matches root rule i makes a record of.
RecordMatches(i) ==
    IF rules[i].Multiple THEN 1..Len(Matched(i))
    ELSE IF Len(Matched(i)) > 0 THEN {1} ELSE {}

\* C16 (as claimed): a rule with Children and Visit whose Attr value
\* resolves to a URL, Multiple or not, has the Fetcher called on that URL
\* and, when the fetch succeeds, every child evaluated against the fetched
\* document's root and recorded under the child's name.
C16_VisitFetchesAndEvaluates ==
    Ran => \A i \in Settled :
             (~IsLeaf(rules[i]) /\ rules[i].Visit)
               => \A n \in RecordMatches(i) :
                     LET a == AttrOf(Matched(i)[n], rules[i].Attr)
                     IN  (rules[i].Attr # "" /\ Resolves(rules[i], a))
                           => /\ Resolve(a) \in fetchLog
                              /\ FetchOk(Resolve(a), failing)
                                   => \A c \in 1..Len(rules[i].Children) :
                                         RecordAt(i, n).v[rules[i].Children[c].Name]
                                           = applyRule(failing,
                                                       DocSelection(Resolve(a)),
                                                       rules[i].Children[c]).v

\* A match n of root rule i, a Multiple rule with Children and Visit, whose
\* Attr value resolved and whose fetch failed.
FailedVisit(i, n) ==
    /\ ~IsLeaf(rules[i]) /\ rules[i].Visit /\ rules[i].Multiple
    /\ rules[i].Attr # ""
    /\ Resolves(rules[i], AttrOf(Matched(i)[n], rules[i].Attr))
    /\ ~FetchOk(Resolve(AttrOf(Matched(i)[n], rules[i].Attr)), failing)

\* C17 (as claimed): after a failed fetch for a Visit rule the record is
\* still produced, without error, and holds under the Attr key the URL as
\* found in the document, unresolved.
C17_Original ==
    Ran => /\ serr = "nil"
           /\ \A i \in Settled : \A n \in 1..Len(Matched(i)) :
                FailedVisit(i, n)
                  => /\ Len(Returned(i).v) = Len(Matched(i))
                     /\ Returned(i).v[n].v[rules[i].Attr]
                          = Str(AttrOf(Matched(i)[n], rules[i].Attr))

\* C17 (amended): after a failed fetch for a match of a Multiple Visit rule
\* the evaluation goes on without error and the match's record is still
\* produced; it holds the resolved, absolute URL under the Attr key and
\* nothing else.
C17_FailedVisitRecordsResolvedURL ==
    Ran => /\ serr = "nil"
           /\ \A i \in Settled : \A n \in 1..Len(Matched(i)) :
                FailedVisit(i, n)
                  => /\ Len(Returned(i).v) = Len(Matched(i))
                     /\ Returned(i).v[n] =
                          Map(Put(<<>>, rules[i].Attr,
                                  Str(Resolve(AttrOf(Matched(i)[n],
                                                     rules[i].Attr)))))

\* C17 witness: the fetch of the first item's page failed and that of the
\* second did not; the first record holds the absolute URL, the second the
\* fields of the fetched page.
C17_Witness ==
    /\ Ran /\ Len(rules) = 1 /\ failing = {"http://h/p1"}
    /\ rules[1].Visit /\ rules[1].Multiple /\ rules[1].Attr = "href"
    /\ rules[1].Selector = "item"
    /\ sret.v["books"].v[1] = Map([href |-> Str("http://h/p1")])
    /\ sret.v["books"].v[2].v["title"] = Arr(<<Str("Page 2")>>)

\* C18: Scrape returns an error exactly when the page fetch fails or the
\* page URL does not parse; otherwise, whatever the rules miss (no match,
\* no attribute, a pattern that does not compile, a failed Visit fetch), it
\* returns a Result whose keys are the names of the root rules.
C18_ErrorsOnlyTopLevel ==
    spc = "done" =>
      /\ serr # "nil" <=> (pageURL \in failing \/ ParseFails(pageURL))
      /\ serr # "nil" => sret = Nil
      /\ serr = "nil" =>
           /\ sret.k = "map"
           /\ DOMAIN sret.v = {rules[i].Name : i \in 1..Len(rules)}

\* C18 witness: a Visit rule whose sub-fetch failed and a second rule;
\* Scrape returned no error and both keys.
C18_Witness ==
    /\ spc = "done" /\ serr = "nil" /\ Len(rules) = 2
    /\ rules[1].Visit /\ rules[1].Multiple /\ rules[1].Attr = "href"
    /\ rules[1].Selector = "item" /\ "http://h/p1" \in failing
    /\ DOMAIN sret.v = {"books", "g"}

(***************************************************************************)
(* Claims about the transform pipeline (SpecTransform).                    *)
(***************************************************************************)
\* C19 (as claimed): the result of a transform list is its last transform
\* applied to every element of the result of the transforms before it; so
\* a Replace after a Split rewrites every fragment.
C19_LastAppliedToEarlierOutput ==
    (tpc # "start" /\ Len(tlist) >= 1)
      => tout = applyTransforms(
                  applyTransform(traw, SubSeq(tlist, 1, Len(tlist) - 1)),
                  <<tlist[Len(tlist)]>>)

\* The pattern of transform tr matches nowhere in value x: it does not
\* compile, or its literal occurs nowhere in the text of x.
CannotMatch(tr, x) ==
    \/ Compile(tr.Match).err
    \/ \A i \in 1..Len(safeString(x)) :
         ~MatchAt(safeString(x), Compile(tr.Match), i)

\* C20: a transform list whose only entry has a pattern that does not
\* match the input, Split or Replace, returns the input as the single
\* output, and applying the list again to that output changes nothing.
C20_NoMatchIsIdentity ==
    (Len(tlist) = 1 /\ CannotMatch(tlist[1], traw))
      => /\ tpc # "start" => tout = <<traw>>
         /\ tpc = "twice" => tagain = tout

\* C20 witness: a Replace whose pattern is not in the text was applied
\* twice to a-b.
C20_Witness ==
    /\ tpc = "twice" /\ traw = Str("a-b")
    /\ tlist = <<Tr("q", "r", FALSE)>>
    /\ tagain = <<Str("a-b")>>

\* C21: evaluating rules and remapping write nothing to their inputs: no
\* step of Scrape changes a field of the rule list it was called with
\* (every rule's Transforms included), and the directive of an iteration
\* of MapResultsResults is afterwards field for field what it was before.
C21_InputsUntouched ==
    [][rules' = rules /\ left' = last']_vars
\* How many times the token occurs in the template, left to right without
\* overlap.
RECURSIVE OccurrencesFrom(_, _, _)
OccurrencesFrom(s, token, i) ==
    IF i > Len(s) THEN 0
    ELSE IF HasAt(s, token, i)
         THEN 1 + OccurrencesFrom(s, token, i + Len(token))
         ELSE OccurrencesFrom(s, token, i + 1)

Occurrences(s, token) == OccurrencesFrom(s, token, 1)

\* C22: random tokens are resolved fresh per occurrence: a call on a
\* template generated one uuid for every {{uuid}} in it, one hex value for
\* every {{hex}} and one base64 value for every {{base64}}, so two
\* occurrences of a token never share one generated value.
C22_FreshPerOccurrence ==
    ppc \in {"string", "interface"}
      => /\ pcalls.uuid = Occurrences(ptempl, "{{uuid}}")
         /\ pcalls.hex = Occurrences(ptempl, "{{hex}}")
         /\ pcalls.base64 = Occurrences(ptempl, "{{base64}}")
\* C23 as stated: the loaded list is the saved list, nil and empty lists
\* told apart as reflect.DeepEqual does.
C23_Original ==
    stpc = "loaded" => loaded = saved

\* A list of length 0 read as nil, at every depth of a rule tree.
RECURSIVE CanonRule(_)

CanonRules(sl) ==
    IF Len(sl.items) = 0 THEN NilSlice
    ELSE Slice([i \in 1..Len(sl.items) |-> CanonRule(sl.items[i])])

CanonTransforms(sl) == IF Len(sl.items) = 0 THEN NilSlice ELSE sl

CanonRule(r) ==
    [r EXCEPT !.Children = CanonRules(r.Children),
              !.Transforms = CanonTransforms(r.Transforms)]

\* No Children or Transforms list of the tree is empty without being nil.
RECURSIVE NoEmptyList(_)
NoEmptyList(r) ==
    /\ Len(r.Transforms.items) = 0 => r.Transforms.null
    /\ Len(r.Children.items) = 0 => r.Children.null
    /\ \A i \in 1..Len(r.Children.items) : NoEmptyList(r.Children.items[i])

\* C23: saving a rule list and loading it back, as JSON, as YAML or through
\* the document store, returns the same rules in the same order with every
\* field equal, nested Children and Transforms included, a list of length 0
\* counting as equal whether nil or empty; it returns exactly the saved
\* list when that list is not nil and no Children or Transforms list in it
\* is empty without being nil.
C23_RoundTripUpToNil ==
    stpc = "loaded"
      => /\ CanonRules(loaded) = CanonRules(saved)
         /\ ( /\ ~saved.null
              /\ \A i \in 1..Len(saved.items) : NoEmptyList(saved.items[i]) )
              => loaded = saved

\* C23 witness: a rule with a child that has a Split transform, next to a
\* rule with two transforms, came back from YAML as it was saved.
C23_Witness ==
    /\ stpc = "loaded" /\ stfile.codec = "yaml"
    /\ Len(saved.items) = 2
    /\ Len(saved.items[1].Children.items) = 1
    /\ saved.items[1].Children.items[1].Transforms = Slice(<<SplitTransform>>)
    /\ Len(saved.items[2].Transforms.items) = 2
    /\ loaded = saved
\* Fetches of two batches are in flight together, or more fetches than the
\* ceiling.
OverParallel ==
    \/ \E g, h \in Fetching : g[1] # h[1]
    \/ Cardinality(Fetching) > Permits(bconc)

\* C24 as stated: the ceiling is not global, a call over a tree gets to a
\* point where fetches of different nodes are in flight together or the
\* fetches in flight over the whole tree exceed concurrency.
C24_Original ==
    <>OverParallel

\* C24: every batch makes its own semaphore, but the batches of one call
\* run one after another: every fetch in flight belongs to the batch the
\* walk is at, and the fetches in flight over the whole tree never exceed
\* the ceiling (concurrency, 1 when it is below 1).
C24_OneBatchAtATime ==
    /\ \A g \in Fetching : g[1] = bn
    /\ Cardinality(Fetching) <= Permits(bconc)

\* C24 witness: the second batch has two fetches in flight on its own
\* semaphore while a goroutine of the first batch still holds a permit of
\* the first.
C24_Witness ==
    /\ bn = 2 /\ Cardinality(Fetching) = 2
    /\ bsem[1] >= 1 /\ bsem[2] = 2
    /\ \E g \in Slots : g[1] = 1 /\ gor[g] = "rel"
\* Goroutine g is about to write the package variable ua while goroutine h
\* is about to read it (line 327) or to write it (line 328); nothing
\* orders the two accesses.
UaRace(g, h) ==
    /\ g # h
    /\ gor[g] = "uanew"
    /\ gor[h] \in {"fetch", "uanew"}

\* C25: the workers of a batch need no locks: no variable the workers can
\* reach is written by one worker while another worker reads or writes it.
C25_NoConcurrentAccess ==
    \A g, h \in Slots : ~UaRace(g, h)
\* The elements of vals with the lists among them replaced by their own
\* elements: one level of nesting collapsed.
RECURSIVE OneLevel(_)
OneLevel(vals) ==
    IF Len(vals) = 0 THEN <<>>
    ELSE IF Head(vals).k = "arr" THEN Head(vals).v \o OneLevel(Tail(vals))
    ELSE <<Head(vals)>> \o OneLevel(Tail(vals))

\* n collapses of one level, one after the other
RECURSIVE Collapsed(_, _)
Collapsed(vals, n) == IF n = 0 THEN vals ELSE Collapsed(OneLevel(vals), n - 1)

\* C26 as stated: Flatten collapses exactly one level, a list two levels
\* deep stays in the output as a list.
C26_Original ==
    fpc = "done" => fflat = OneLevel(fvals)

\* C26: flattenList collapses every level of nesting: its output holds no
\* list, and is what collapsing one level gives when that is repeated until
\* no list is left, the scalars in the order they are met from left to
\* right.
C26_FlattenAllLevels ==
    fpc = "done"
      => /\ \A i \in 1..Len(fflat) : fflat[i].k # "arr"
         /\ fflat = Collapsed(fvals, MaxNest + 1)

\* C26 witness: a list inside a list inside the input came out as scalars.
C26_Witness ==
    /\ fpc = "done"
    /\ fvals = <<Str("x"), Arr(<<Arr(<<Str("a"), Str("b")>>), Str("y")>>)>>
    /\ fflat = <<Str("x"), Str("a"), Str("b"), Str("y")>>
Copied(h, x) == {a \in Below(h, x) : h[a].k \in {"map", "arr"}}

\* Every map and slice of the template is a map[string]interface{} or a
\* []interface{}, as JSON decoding makes them.
JsonShaped == \A a \in Below(aheap, Ref(aroot)) : aheap[a].k \in {"map", "arr"}

C28_AlwaysReturns ==
    <>(bpc = "return")
\* C30: when the batch has ended, two slots of different URLs never name
\* the same local path, and the file a non-empty slot names holds what was
\* fetched from that slot's own URL (or was on disk before the batch).
C30_OwnPathOwnContent ==
    pc = "done"
      => /\ \A i, j \in Workers :
              ( /\ urlResults[i] # urlResults[j]
                /\ downloadList[i] # "" /\ downloadList[j] # "" )
                => downloadList[i] # downloadList[j]
         /\ \A i \in Workers :
              downloadList[i] # ""
                => fs[downloadList[i]] \in {urlResults[i], "old"}
\* C29: DownloadResults changes only download targets: when the rule has
\* Children, so that rule.Name holds a nested Result or an array of
\* Results, the value at rule.Name holds after the call every field it
\* held before, also for a Download-flagged rule.
C29_NestedFieldsKept ==
    (pc = "done" /\ extracted \in NestedExtractions)
      => stored = extracted

=============================================================================
